---- MODULE Spec2Model ----
(***************************************************************************)
(* A model of the content API of the site (src/lib/api.ts): the page       *)
(* loader, the menu normalizer, the path collector, the prev/next linker   *)
(* and the props assembler.                                                *)
(*                                                                         *)
(* A JavaScript string is a sequence of one-character strings, so that     *)
(* split, replace, startsWith and substring are computed as the code       *)
(* computes them.  An optional value is a sequence: << >> is undefined,    *)
(* << v >> is the value v.  A call returns Return(v) or Throw(e).  A value *)
(* the code computes once and uses several times is handed on as a         *)
(* parameter of the definition that uses it.                               *)
(***************************************************************************)
EXTENDS Integers, Sequences, FiniteSets, TLC

(***************************************************************************)
(* Bounds of the model.                                                    *)
(***************************************************************************)
\* segments of a slug given to the page loader
MaxSegs == 2

\* entries of one level of a menu given to the prev/next linker
MaxPages == 3

\* children of a section
MaxChildren == 2

\* keys of a section of the sitemap
MaxKeys == 3

\* child keys of a nested list of the sitemap
MaxNested == 3

\* pages of the date-ordered collection
MaxPosts == 3

\* getProps invocations under way at a time
MaxCalls == 2

(***************************************************************************)
(* Strings and optional values.                                            *)
(***************************************************************************)
Undefined == << >>

Some(v) == << v >>

\* null: a sequence of length 2, so neither undefined nor a value
Null == << << "n" >>, << "n" >> >>

IsDefined(o) == Len(o) = 1

\* JS truthiness of an optional string: undefined, null and "" are falsy
Truthy(o) == Len(o) = 1 /\ o[1] # << >>

\* a || b on optional values
OrElse(a, b) == IF Truthy(a) THEN a ELSE b

Last(s) == s[Len(s)]

StartsWith(s, p) == Len(p) <= Len(s) /\ SubSeq(s, 1, Len(p)) = p

EndsWith(s, p) == Len(p) <= Len(s) /\ SubSeq(s, Len(s) - Len(p) + 1, Len(s)) = p

\* the 1-based indices at which p occurs in s
Occurrences(s, p) == { i \in 1..(Len(s) - Len(p) + 1) : SubSeq(s, i, i + Len(p) - 1) = p }

Includes(s, p) == Occurrences(s, p) # {}

\* s.substring(n)
Substring(s, n) == SubSeq(s, n + 1, Len(s))

\* s with the Len(p) characters from index i on replaced by r; s when i = 0
ReplaceAt(s, i, p, r) ==
  IF i = 0 THEN s ELSE SubSeq(s, 1, i - 1) \o r \o SubSeq(s, i + Len(p), Len(s))

\* the least element of a set of numbers, 0 for the empty set
Least(S) == IF S = {} THEN 0 ELSE CHOOSE i \in S : \A j \in S : i <= j

\* s.replace(p, r) with a string pattern: the first occurrence only
ReplaceFirst(s, p, r) == ReplaceAt(s, Least(Occurrences(s, p)), p, r)

\* s.replace(/\\/g, "/")
ReplaceBackslashes(s) == [i \in 1..Len(s) |-> IF s[i] = "\\" THEN "/" ELSE s[i]]

RECURSIVE SplitFrom(_, _, _)
SplitFrom(s, seps, acc) ==
  IF s = << >> THEN << acc >>
  ELSE IF Head(s) \in seps THEN << acc >> \o SplitFrom(Tail(s), seps, << >>)
  ELSE SplitFrom(Tail(s), seps, Append(acc, Head(s)))

\* s.split(c): the pieces of s between the characters of seps
Split(s, seps) == SplitFrom(s, seps, << >>)

RECURSIVE JoinWith(_, _)
\* parts.join(c)
JoinWith(parts, c) ==
  IF parts = << >> THEN << >>
  ELSE IF Len(parts) = 1 THEN parts[1]
  ELSE parts[1] \o << c >> \o JoinWith(Tail(parts), c)

DotMd == << ".", "m", "d" >>

IndexMd == << "i", "n", "d", "e", "x", ".", "m", "d" >>

Content == << "c", "o", "n", "t", "e", "n", "t" >>

\* s.replace(/\.md$/, "")
StripMdSuffix(s) == IF EndsWith(s, DotMd) THEN SubSeq(s, 1, Len(s) - Len(DotMd)) ELSE s

(***************************************************************************)
(* The path module of the runtime, for the two platforms ("posix": the     *)
(* separator is "/"; "win32": the separator is "\" and "/" separates       *)
(* too).  Paths of the model carry at most the one drive "C:" and no UNC   *)
(* root.                                                                   *)
(***************************************************************************)
Platforms == { "posix", "win32" }

\* path.sep
Sep(pf) == IF pf = "posix" THEN "/" ELSE "\\"

PathSeparators(pf) == IF pf = "posix" THEN { "/" } ELSE { "/", "\\" }

HasDevice(s) == Len(s) >= 2 /\ s[1] = "C" /\ s[2] = ":"

\* path.isAbsolute
IsAbsolute(pf, s) ==
  IF pf = "posix" THEN Len(s) > 0 /\ s[1] = "/"
  ELSE \/ Len(s) > 0 /\ s[1] \in { "/", "\\" }
       \/ HasDevice(s) /\ Len(s) > 2 /\ s[3] \in { "/", "\\" }

RECURSIVE NormSegs(_, _, _)
\* normalizeString of the runtime, on the segments between separators: ""
\* and "." are dropped, ".." removes the segment before it
NormSegs(segs, allowAboveRoot, acc) ==
  IF segs = << >> THEN acc
  ELSE IF Head(segs) = << >> \/ Head(segs) = << "." >>
    THEN NormSegs(Tail(segs), allowAboveRoot, acc)
  ELSE IF Head(segs) # << ".", "." >>
    THEN NormSegs(Tail(segs), allowAboveRoot, Append(acc, Head(segs)))
  ELSE NormSegs(Tail(segs), allowAboveRoot,
                IF acc # << >> /\ Last(acc) # << ".", "." >>
                  THEN SubSeq(acc, 1, Len(acc) - 1)
                ELSE IF allowAboveRoot THEN Append(acc, Head(segs))
                ELSE acc)

PosixAssemble(abs, trailing, body) ==
  IF body = << >>
    THEN IF abs THEN << "/" >> ELSE IF trailing THEN << ".", "/" >> ELSE << "." >>
  ELSE (IF abs THEN << "/" >> ELSE << >>) \o body \o (IF trailing THEN << "/" >> ELSE << >>)

\* path.posix.normalize
PosixNormalize(s) ==
  IF s = << >> THEN << "." >>
  ELSE PosixAssemble(s[1] = "/", Last(s) = "/",
                     JoinWith(NormSegs(Split(s, { "/" }), s[1] # "/", << >>), "/"))

Win32Assemble(device, abs, trailing, tail) ==
  device \o (IF abs THEN << "\\" >> ELSE << >>)
  \o (IF tail = << >> /\ ~abs THEN << "." >> ELSE tail)
  \o (IF (tail # << >> \/ ~abs) /\ trailing THEN << "\\" >> ELSE << >>)

\* the root of a win32 path: [device, abs, rootEnd]
Win32Root(s) ==
  IF s[1] \in { "/", "\\" } THEN [device |-> << >>, abs |-> TRUE, rootEnd |-> 1]
  ELSE IF ~HasDevice(s) THEN [device |-> << >>, abs |-> FALSE, rootEnd |-> 0]
  ELSE IF Len(s) > 2 /\ s[3] \in { "/", "\\" }
    THEN [device |-> << "C", ":" >>, abs |-> TRUE, rootEnd |-> 3]
  ELSE [device |-> << "C", ":" >>, abs |-> FALSE, rootEnd |-> 2]

Win32Rooted(s, root) ==
  Win32Assemble(root.device, root.abs, Last(s) \in { "/", "\\" },
                JoinWith(NormSegs(Split(Substring(s, root.rootEnd), { "/", "\\" }),
                                  ~root.abs, << >>), "\\"))

\* path.win32.normalize
Win32Normalize(s) ==
  IF s = << >> THEN << "." >>
  ELSE IF Len(s) = 1 THEN (IF s[1] = "/" THEN << "\\" >> ELSE s)
  ELSE Win32Rooted(s, Win32Root(s))

\* path.normalize
Normalize(pf, s) == IF pf = "posix" THEN PosixNormalize(s) ELSE Win32Normalize(s)

NonEmpty(a) == a # << >>

JoinParts(pf, parts) ==
  IF parts = << >> THEN << "." >> ELSE Normalize(pf, JoinWith(parts, Sep(pf)))

\* path.join: the non-empty arguments joined by the separator, then normalized
Join(pf, args) == JoinParts(pf, SelectSeq(args, NonEmpty))

\* process.cwd()
Cwd(pf) == IF pf = "posix" THEN << "/", "w" >> ELSE << "C", ":", "\\", "w" >>

RootLen(pf) == IF pf = "posix" THEN 1 ELSE 3

\* a path made absolute: on the drive and below the working directory of the process
Absolute(pf, s) ==
  IF ~IsAbsolute(pf, s) THEN Cwd(pf) \o << Sep(pf) >> \o s
  ELSE IF pf = "win32" /\ ~HasDevice(s) THEN << "C", ":" >> \o s
  ELSE s

WithoutTrailingSep(pf, n) ==
  IF Len(n) > RootLen(pf) /\ Last(n) = Sep(pf) THEN SubSeq(n, 1, Len(n) - 1) ELSE n

\* path.resolve of one argument: absolute, normalized, no trailing separator
Resolve(pf, s) == WithoutTrailingSep(pf, Normalize(pf, Absolute(pf, s)))

\* the segments of a resolved path below its root
ResolvedSegs(pf, r) == SelectSeq(Split(Substring(r, RootLen(pf)), { Sep(pf) }), NonEmpty)

RECURSIVE CommonPrefixLen(_, _)
CommonPrefixLen(a, b) ==
  IF a = << >> \/ b = << >> \/ Head(a) # Head(b) THEN 0
  ELSE 1 + CommonPrefixLen(Tail(a), Tail(b))

\* one ".." for each segment of f below the first c, then the segments of t below them
RelativeSegs(f, t, c) == [i \in 1..(Len(f) - c) |-> << ".", "." >>] \o SubSeq(t, c + 1, Len(t))

RelativeFrom(pf, f, t) == JoinWith(RelativeSegs(f, t, CommonPrefixLen(f, t)), Sep(pf))

\* path.relative
Relative(pf, from, to) ==
  RelativeFrom(pf, ResolvedSegs(pf, Resolve(pf, from)), ResolvedSegs(pf, Resolve(pf, to)))

(***************************************************************************)
(* The content directory and the files in it.  A file system maps the     *)
(* resolved path of each existing file to what gray-matter reads from it:  *)
(* the front matter (data) and the body (content).                         *)
(***************************************************************************)
\* const contentDir = path.join(process.cwd(), "content").replace(/\\/g, "/")
contentDir(pf) == ReplaceBackslashes(Join(pf, << Cwd(pf), Content >>))

\* fs.existsSync
existsSync(pf, fs, p) == Resolve(pf, p) \in DOMAIN fs

\* matter(fs.readFileSync(p, "utf-8"))
matter(pf, fs, p) == fs[Resolve(pf, p)]

\* a thrown exception, and a returned value
Throw(e) == [threw |-> TRUE, error |-> << e >>, value |-> << >>]

Return(v) == [threw |-> FALSE, error |-> << >>, value |-> << v >>]

TypeError == [name |-> "TypeError", tried |-> << >>]

(***************************************************************************)
(* Page Loader.                                                            *)
(***************************************************************************)
\* api.ts 188-193: an absolute argument, given its path from the working directory
fromCwd(pf, pathArgument, pathFromCwd) ==
  IF \/ StartsWith(pathFromCwd, << Sep(pf) >> \o Content \o << Sep(pf) >>)
     \/ StartsWith(pathFromCwd, Content \o << Sep(pf) >>)
    THEN Substring(pathFromCwd, Len(Content) + 1)
  ELSE pathArgument

\* api.ts 204-206
stripLeadingSep(pf, r) ==
  IF StartsWith(r, << Sep(pf) >>) \/ StartsWith(r, << "/" >>) THEN Substring(r, 1) ELSE r

\* api.ts 202-207
stripPrefix(pf, pathArgument, prefixToRemove) ==
  IF StartsWith(pathArgument, prefixToRemove)
    THEN stripLeadingSep(pf, Substring(pathArgument, Len(prefixToRemove)))
  ELSE pathArgument

\* api.ts 194-208: an argument that is not absolute
withoutContentDir(pf, pathArgument, normalizedContentDir, cdir) ==
  IF Includes(pathArgument, normalizedContentDir) \/ Includes(pathArgument, cdir)
    THEN stripPrefix(pf, pathArgument,
                     IF ~StartsWith(pathArgument, normalizedContentDir)
                       THEN cdir ELSE normalizedContentDir)
  ELSE pathArgument

\* api.ts 184-208
relativeToContent(pf, pathArgument) ==
  IF IsAbsolute(pf, pathArgument)
    THEN fromCwd(pf, pathArgument, Relative(pf, Cwd(pf), pathArgument))
  ELSE withoutContentDir(pf, pathArgument, Normalize(pf, contentDir(pf)), contentDir(pf))

\* api.ts 210-211
stripDotSlashSep(pf, r) ==
  IF StartsWith(r, << ".", "/", Sep(pf) >>) THEN Substring(r, 2) ELSE r

\* api.ts 212
stripDotSlash(r) == IF StartsWith(r, << ".", "/" >>) THEN Substring(r, 2) ELSE r

\* the relative path loadPage resolves its argument to (api.ts 182-212)
relativePathOf(pf, pathArgument) ==
  stripDotSlash(stripDotSlashSep(pf, relativeToContent(pf, pathArgument)))

\* const base = path.join(normalizedContentDir, relativePath)
baseOf(pf, relativePath) == Join(pf, << Normalize(pf, contentDir(pf)), relativePath >>)

\* const fullPathMdFile = path.join(base + ".md")
fullPathMdFile(pf, relativePath) == Join(pf, << baseOf(pf, relativePath) \o DotMd >>)

\* mutant: "index.md" appended to the base without a separator
fullPathIndexMdFile_NoSep(pf, relativePath) == Join(pf, << baseOf(pf, relativePath) \o IndexMd >>)

\* const fullPathIndexMdFile = path.join(base, "index.md")
fullPathIndexMdFile(pf, relativePath) == Join(pf, << baseOf(pf, relativePath), IndexMd >>)

\* mutant: href keeps the separators of the argument
PageRecord_RawHref(pf, relativePath, mdPath, res) ==
  [ key         |-> Last(Split(relativePath, { Sep(pf) })),
    href        |-> << "/" >> \o relativePath,
    title       |-> res.data.title,
    menuTitle   |-> OrElse(res.data.menu, res.data.title),
    mdPath      |-> ReplaceBackslashes(mdPath),
    data        |-> res.data,
    body        |-> res.content,
    description |-> OrElse(res.data.description, Null),
    prev        |-> Undefined,
    next        |-> Undefined ]

\* mutant: mdPath keeps the separators of the platform
PageRecord_RawMdPath(pf, relativePath, mdPath, res) ==
  [ key         |-> Last(Split(relativePath, { Sep(pf) })),
    href        |-> << "/" >> \o ReplaceBackslashes(relativePath),
    title       |-> res.data.title,
    menuTitle   |-> OrElse(res.data.menu, res.data.title),
    mdPath      |-> mdPath,
    data        |-> res.data,
    body        |-> res.content,
    description |-> OrElse(res.data.description, Null),
    prev        |-> Undefined,
    next        |-> Undefined ]

\* the PageRecord built from a parsed file (api.ts 236-245)
PageRecord(pf, relativePath, mdPath, res) ==
  [ key         |-> Last(Split(relativePath, { Sep(pf) })),
    href        |-> << "/" >> \o ReplaceBackslashes(relativePath),
    title       |-> res.data.title,
    menuTitle   |-> OrElse(res.data.menu, res.data.title),
    mdPath      |-> ReplaceBackslashes(mdPath),
    data        |-> res.data,
    body        |-> res.content,
    description |-> OrElse(res.data.description, Null),
    prev        |-> Undefined,
    next        |-> Undefined ]

\* mutant: <relative>/index.md is tried before <relative>.md
loadFrom_IndexFirst(pf, fs, relativePath, md, idx) ==
  IF existsSync(pf, fs, idx)
    THEN Return(PageRecord(pf, relativePath, Join(pf, << relativePath, IndexMd >>),
                           matter(pf, fs, idx)))
  ELSE IF existsSync(pf, fs, md)
    THEN Return(PageRecord(pf, relativePath, relativePath \o DotMd, matter(pf, fs, md)))
  ELSE Throw([name |-> "ENOENT", tried |-> << md, idx >>])

\* api.ts 219-245: <relative>.md first, then <relative>/index.md, else the error
loadFrom(pf, fs, relativePath, md, idx) ==
  IF existsSync(pf, fs, md)
    THEN Return(PageRecord(pf, relativePath, relativePath \o DotMd, matter(pf, fs, md)))
  ELSE IF existsSync(pf, fs, idx)
    THEN Return(PageRecord(pf, relativePath, Join(pf, << relativePath, IndexMd >>),
                           matter(pf, fs, idx)))
  ELSE Throw([name |-> "ENOENT", tried |-> << md, idx >>])

loadRelative(pf, fs, relativePath) ==
  loadFrom(pf, fs, relativePath, fullPathMdFile(pf, relativePath),
           fullPathIndexMdFile(pf, relativePath))

\* export function loadPage(pathArgument)
loadPage(pf, fs, pathArgument) == loadRelative(pf, fs, relativePathOf(pf, pathArgument))

\* mutant: the menu page is the whole page record, body included
menuPageOf_WholePage(r) ==
  IF r.threw THEN r
  ELSE Return([ key   |-> r.value[1].key,
                href  |-> r.value[1].href,
                title |-> r.value[1].menuTitle,
                data  |-> Some(r.value[1].data),
                body  |-> r.value[1].body ])

\* the summary loadMenuPage keeps of a loaded page (api.ts 251-256)
menuPageOf(r) ==
  IF r.threw THEN r
  ELSE Return([ key   |-> r.value[1].key,
                href  |-> r.value[1].href,
                title |-> r.value[1].menuTitle,
                data  |-> Some(r.value[1].data) ])

\* function loadMenuPage(path)
loadMenuPage(pf, fs, path) == menuPageOf(loadPage(pf, fs, path))

(***************************************************************************)
(* The sitemap.  A mapping is the sequence of its [k, v] entries in        *)
(* iteration order; a node v is [href, nested, title] with href and title  *)
(* optional and nested one of: absent, a list of child keys, a mapping.    *)
(***************************************************************************)
NoNested == [kind |-> "none", items |-> << >>]

NestedList(keys) == [kind |-> "list", items |-> keys]

NestedMap(level) == [kind |-> "map", items |-> level]

Node(href, nested) == [href |-> href, nested |-> nested, title |-> Undefined]

\* the node {} collectPaths builds for a child key of a nested list
EmptyNode == Node(Undefined, NoNested)

Entry(k, v) == [k |-> k, v |-> v]

\* menu[key], undefined when the mapping has no such key
Lookup(level, key) ==
  IF \E i \in 1..Len(level) : level[i].k = key
    THEN Some(level[CHOOSE i \in 1..Len(level) : level[i].k = key].v)
  ELSE Undefined

Digit(n) == << << "0" >>, << "1" >>, << "2" >>, << "3" >>, << "4" >>,
               << "5" >>, << "6" >>, << "7" >>, << "8" >>, << "9" >> >>[n + 1]

(***************************************************************************)
(* Path Collector.                                                         *)
(***************************************************************************)
RECURSIVE collectPaths(_, _)
RECURSIVE collectChildren(_, _)

\* mutant: a nested mapping is not descended into
collectPaths_ListsOnly(level, prefix) ==
  IF level = << >> THEN << >>
  ELSE (IF ~Truthy(level[1].v.href) THEN << prefix \o << "/" >> \o level[1].k >> ELSE << >>)
       \o (IF level[1].v.nested.kind = "list"
             THEN collectChildren(level[1].v.nested.items, prefix \o << "/" >> \o level[1].k)
           ELSE << >>)
       \o collectPaths(Tail(level), prefix)

\* mutant: nothing is emitted below a node with an explicit href
collectPaths_NothingBelowLinks(level, prefix) ==
  IF level = << >> THEN << >>
  ELSE (IF Truthy(level[1].v.href) THEN << >>
        ELSE << prefix \o << "/" >> \o level[1].k >>
             \o (IF level[1].v.nested.kind = "list"
                   THEN collectChildren(level[1].v.nested.items, prefix \o << "/" >> \o level[1].k)
                 ELSE IF level[1].v.nested.kind = "map"
                   THEN collectPaths(level[1].v.nested.items, prefix \o << "/" >> \o level[1].k)
                 ELSE << >>))
       \o collectPaths(Tail(level), prefix)

\* function collectPaths(level, prefix = ""): the loop over Object.entries(level)
collectPaths(level, prefix) ==
  IF level = << >> THEN << >>
  ELSE (IF ~Truthy(level[1].v.href) THEN << prefix \o << "/" >> \o level[1].k >> ELSE << >>)
       \o (IF level[1].v.nested.kind = "list"
             THEN collectChildren(level[1].v.nested.items, prefix \o << "/" >> \o level[1].k)
           ELSE IF level[1].v.nested.kind = "map"
             THEN collectPaths(level[1].v.nested.items, prefix \o << "/" >> \o level[1].k)
           ELSE << >>)
       \o collectPaths(Tail(level), prefix)

\* the loop over the keys of a nested list (api.ts 129-133)
collectChildren(ps, here) ==
  IF ps = << >> THEN << >>
  ELSE collectPaths(<< Entry(Head(ps), EmptyNode) >>, here) \o collectChildren(Tail(ps), here)

\* mutant: the first key is dropped along with the empty piece before it
slugParams_DropFirstKey(found) ==
  [i \in 1..Len(found) |-> [params |-> [slug |-> Tail(Tail(Split(found[i], { "/" })))]]]

\* the .map of getMenuPaths: [, ...slug] = slug.split("/")
slugParams(found) ==
  [i \in 1..Len(found) |-> [params |-> [slug |-> Tail(Split(found[i], { "/" }))]]]

\* export function getMenuPaths(menu)
getMenuPaths(menu) == [paths |-> slugParams(collectPaths(menu, << >>)), fallback |-> FALSE]

(***************************************************************************)
(* Menu Normalizer.                                                        *)
(***************************************************************************)
\* Object.keys(menu) with menu[l1] for each key: the entries of a mapping, the
\* indices and elements of a list (strings, which carry neither href nor
\* nested); Object.keys(undefined) throws
ObjectEntries(nested) ==
  IF nested.kind = "map" THEN Return(nested.items)
  ELSE IF nested.kind = "list"
    THEN Return([i \in 1..Len(nested.items) |-> Entry(Digit(i - 1), EmptyNode)])
  ELSE Throw(TypeError)

\* an entry of the normalized menu
MenuEntry(page, nested) == [page |-> page, nested |-> nested]

\* out.push(x) after the rest of the loop ran: the first exception wins
pushed(r, rest) ==
  IF r.threw THEN r
  ELSE IF rest.threw THEN rest
  ELSE Return(<< r.value[1] >> \o rest.value[1])

\* {page: loadMenuPage(...)}
pageEntry(r) == IF r.threw THEN r ELSE Return(MenuEntry(r.value, Undefined))

\* {page: loadMenuPage(...), nested: submenu}
sectionEntry(submenu, r) ==
  IF submenu.threw THEN submenu
  ELSE IF r.threw THEN r
  ELSE Return(MenuEntry(r.value, submenu.value))

RECURSIVE loadSubmenu(_, _, _, _)
\* the loop over menu[l1].nested (api.ts 163-169)
loadSubmenu(pf, fs, children, prefix) ==
  IF children = << >> THEN Return(<< >>)
  ELSE pushed(pageEntry(loadMenuPage(pf, fs, prefix \o << "/" >> \o Head(children))),
              loadSubmenu(pf, fs, Tail(children), prefix))

\* the entry of an external link: {page: {key: l1, ...menu[l1]}}
stubEntry(l1, v) ==
  MenuEntry(Some([ key |-> l1, href |-> v.href[1], title |-> v.title,
                   data |-> Undefined, nested |-> v.nested ]),
            Undefined)

\* mutant: the page of an external link is loaded like any other
normalizeEntry_LoadsLinks(pf, fs, l1, v, root) ==
  IF v.nested.kind = "none"
    THEN pageEntry(loadMenuPage(pf, fs, root \o << "/" >> \o l1))
  ELSE IF v.nested.kind = "map" THEN Throw(TypeError)
  ELSE sectionEntry(loadSubmenu(pf, fs, v.nested.items, root \o << "/" >> \o l1),
                    loadMenuPage(pf, fs, root \o << "/" >> \o l1))

\* the body of the loop of normalize for one key (api.ts 148-175); iterating
\* over a nested mapping throws
normalizeEntry(pf, fs, l1, v, root) ==
  IF Truthy(v.href) THEN Return(stubEntry(l1, v))
  ELSE IF v.nested.kind = "none"
    THEN pageEntry(loadMenuPage(pf, fs, root \o << "/" >> \o l1))
  ELSE IF v.nested.kind = "map" THEN Throw(TypeError)
  ELSE sectionEntry(loadSubmenu(pf, fs, v.nested.items, root \o << "/" >> \o l1),
                    loadMenuPage(pf, fs, root \o << "/" >> \o l1))

RECURSIVE normalizeFrom(_, _, _, _)
\* the loop over Object.keys(menu) (api.ts 147-176)
normalizeFrom(pf, fs, entries, root) ==
  IF entries = << >> THEN Return(<< >>)
  ELSE pushed(normalizeEntry(pf, fs, Head(entries).k, Head(entries).v, root),
              normalizeFrom(pf, fs, Tail(entries), root))

normalizeKeys(pf, fs, keys, root) ==
  IF keys.threw THEN keys ELSE normalizeFrom(pf, fs, keys.value[1], root)

\* function normalize(menu, root)
normalize(pf, fs, menu, root) == normalizeKeys(pf, fs, ObjectEntries(menu), root)

(***************************************************************************)
(* Prev/Next Linker.                                                       *)
(***************************************************************************)
\* x.page of an optional object x
PageOf(x) == IF Len(x) = 1 /\ "page" \in DOMAIN x[1] THEN x[1].page ELSE Undefined

\* p.menuTitle
MenuTitleOf(p) == IF "menuTitle" \in DOMAIN p THEN p.menuTitle ELSE Undefined

\* entry.page && entry.page.data
HasPageData(entry) == IsDefined(entry.page) /\ IsDefined(entry.page[1].data)

RECURSIVE eachPage(_, _, _)
\* mutant: the nested entries are traversed before the entry's own page
eachPage_ChildrenFirst(menu, prev, prevSection) ==
  IF menu = << >> THEN << >>
  ELSE (IF IsDefined(Head(menu).nested)
          THEN eachPage(Head(menu).nested[1], Head(menu).page,
                        IF HasPageData(Head(menu)) THEN Head(menu).page ELSE prev)
        ELSE << >>)
       \o (IF HasPageData(Head(menu))
             THEN << [ p    |-> Head(menu).page[1],
                       prev |-> IF IsDefined(prev) THEN prev ELSE PageOf(prevSection) ] >>
           ELSE << >>)
       \o eachPage(Tail(menu), IF HasPageData(Head(menu)) THEN Head(menu).page ELSE prev,
                   prevSection)

\* mutant: the nested entries are traversed after the rest of the level
eachPage_SiblingsFirst(menu, prev, prevSection) ==
  IF menu = << >> THEN << >>
  ELSE (IF HasPageData(Head(menu))
          THEN << [ p    |-> Head(menu).page[1],
                    prev |-> IF IsDefined(prev) THEN prev ELSE PageOf(prevSection) ] >>
        ELSE << >>)
       \o eachPage(Tail(menu), IF HasPageData(Head(menu)) THEN Head(menu).page ELSE prev,
                   prevSection)
       \o (IF IsDefined(Head(menu).nested)
             THEN eachPage(Head(menu).nested[1], Head(menu).page,
                           IF HasPageData(Head(menu)) THEN Head(menu).page ELSE prev)
           ELSE << >>)

\* function eachPage(menu, f, prev, prevSection): the calls f(p, prev) it
\* makes, in order
eachPage(menu, prev, prevSection) ==
  IF menu = << >> THEN << >>
  ELSE (IF HasPageData(Head(menu))
          THEN << [ p    |-> Head(menu).page[1],
                    prev |-> IF IsDefined(prev) THEN prev ELSE PageOf(prevSection) ] >>
        ELSE << >>)
       \o (IF IsDefined(Head(menu).nested)
             THEN eachPage(Head(menu).nested[1], Head(menu).page,
                           IF HasPageData(Head(menu)) THEN Head(menu).page ELSE prev)
           ELSE << >>)
       \o eachPage(Tail(menu), IF HasPageData(Head(menu)) THEN Head(menu).page ELSE prev,
                   prevSection)

\* the link {title, href} to page p
LinkTo(p) == [title |-> OrElse(MenuTitleOf(p), p.title), href |-> p.href]

\* mutant: next is assigned whether or not the target was met
onPage_NextUnmatched(st, href, p, prev) ==
  IF p.href = href
    THEN [ didMatch |-> TRUE,
           prev     |-> IF IsDefined(prev) /\ Truthy(prev[1].title)
                          THEN Some(LinkTo(prev[1])) ELSE st.prev,
           next     |-> st.next ]
  ELSE [didMatch |-> FALSE, prev |-> st.prev, next |-> Some(LinkTo(p))]

\* mutant: the match flag is never cleared
onPage_KeepMatching(st, href, p, prev) ==
  IF p.href = href
    THEN [ didMatch |-> TRUE,
           prev     |-> IF IsDefined(prev) /\ Truthy(prev[1].title)
                          THEN Some(LinkTo(prev[1])) ELSE st.prev,
           next     |-> st.next ]
  ELSE IF st.didMatch
    THEN [didMatch |-> TRUE, prev |-> st.prev, next |-> Some(LinkTo(p))]
  ELSE st

\* mutant: prev is assigned whenever a previous page exists, titled or not
onPage_AnyPrev(st, href, p, prev) ==
  IF p.href = href
    THEN [ didMatch |-> TRUE,
           prev     |-> IF IsDefined(prev) THEN Some(LinkTo(prev[1])) ELSE st.prev,
           next     |-> st.next ]
  ELSE IF st.didMatch
    THEN [didMatch |-> FALSE, prev |-> st.prev, next |-> Some(LinkTo(p))]
  ELSE st

\* the callback of setPrevNext (api.ts 90-108) on the linker's state
\* [didMatch, prev, next]
onPage(st, href, p, prev) ==
  IF p.href = href
    THEN [ didMatch |-> TRUE,
           prev     |-> IF IsDefined(prev) /\ Truthy(prev[1].title)
                          THEN Some(LinkTo(prev[1])) ELSE st.prev,
           next     |-> st.next ]
  ELSE IF st.didMatch
    THEN [didMatch |-> FALSE, prev |-> st.prev, next |-> Some(LinkTo(p))]
  ELSE st

RECURSIVE linkFrom(_, _, _)
\* the linker's state after the calls
linkFrom(st, href, visits) ==
  IF visits = << >> THEN st
  ELSE linkFrom(onPage(st, href, Head(visits).p, Head(visits).prev), href, Tail(visits))

linked(page, st) == [page EXCEPT !.prev = st.prev, !.next = st.next]

\* function setPrevNext(page, menu)
setPrevNext(page, menu) ==
  linked(page, linkFrom([didMatch |-> FALSE, prev |-> page.prev, next |-> page.next],
                        page.href, eachPage(menu, Undefined, Undefined)))

(***************************************************************************)
(* Date-ordered collection and app-wide data.                              *)
(***************************************************************************)
\* the markdown renderer, an external collaborator: the markup differs from
\* the markdown it renders
toHTML(body) == << "<", "p", ">" >> \o body

\* whether the full path f names a file *.md directly in the directory dir
MatchesGlob(pf, fs, dir, f) ==
  /\ f \in DOMAIN fs
  /\ StartsWith(f, dir)
  /\ EndsWith(f, DotMd)
  /\ Len(f) > Len(dir) + Len(DotMd)
  /\ \A i \in (Len(dir) + 1)..Len(f) : f[i] # Sep(pf)

RECURSIVE globFrom(_, _, _, _)
globFrom(pf, fs, dir, order) ==
  IF order = << >> THEN << >>
  ELSE (IF MatchesGlob(pf, fs, dir, Head(order)) THEN << Head(order) >> ELSE << >>)
       \o globFrom(pf, fs, dir, Tail(order))

\* globSync(`${contentDir}/${root}/*.md`): the matching files as full paths of
\* the platform, in the order the file system enumerates them
globSync(pf, fs, order, root) ==
  globFrom(pf, fs, Normalize(pf, contentDir(pf)) \o << Sep(pf) >> \o root \o << Sep(pf) >>,
           order)

\* Date.parse(page.data.date) of a date <<year, month, day>>: a number that
\* grows with the date, or NaN (undefined here) when the page has no date
DateParse(d) ==
  IF IsDefined(d) THEN Some((d[1][1] * 12 + (d[1][2] - 1)) * 31 + (d[1][3] - 1))
  ELSE Undefined

\* b.date - a.date, NaN counting as 0 for the sort
CompareDates(a, b) ==
  IF IsDefined(a.date) /\ IsDefined(b.date) THEN b.date[1] - a.date[1] ELSE 0

RECURSIVE insertSorted(_, _)
\* mutant: x goes before the elements it compares equal to
insertSorted_BeforeEqual(sorted, x) ==
  IF sorted = << >> THEN << x >>
  ELSE IF CompareDates(Head(sorted), x) < 0
    THEN << Head(sorted) >> \o insertSorted(Tail(sorted), x)
  ELSE << x >> \o sorted

\* x after every element that does not sort after it: Array.prototype.sort is stable
insertSorted(sorted, x) ==
  IF sorted = << >> THEN << x >>
  ELSE IF CompareDates(Head(sorted), x) <= 0
    THEN << Head(sorted) >> \o insertSorted(Tail(sorted), x)
  ELSE << x >> \o sorted

RECURSIVE sortFrom(_, _)
sortFrom(sorted, rest) ==
  IF rest = << >> THEN sorted ELSE sortFrom(insertSorted(sorted, Head(rest)), Tail(rest))

\* .sort((a, b) => b.date - a.date)
sortByDate(pages) == sortFrom(<< >>, pages)

\* {date: Date.parse(page.data.date), ...page}
Dated(page) ==
  [ date |-> DateParse(page.data.date), key |-> page.key, href |-> page.href,
    title |-> page.title, menuTitle |-> page.menuTitle, mdPath |-> page.mdPath,
    data |-> page.data, body |-> Some(page.body), description |-> page.description ]

datedOf(r) == IF r.threw THEN r ELSE Return(Dated(r.value[1]))

\* const path = fullPath.replace(`${contentDir}/`, "").replace(/\.md$/, "")
globbedPath(pf, fullPath) ==
  StripMdSuffix(ReplaceFirst(fullPath, contentDir(pf) \o << "/" >>, << >>))

RECURSIVE loadDated(_, _, _)
\* the .map of getDateOrderedPaths (api.ts 44-52)
loadDated(pf, fs, fullPaths) ==
  IF fullPaths = << >> THEN Return(<< >>)
  ELSE pushed(datedOf(loadPage(pf, fs, globbedPath(pf, Head(fullPaths)))),
              loadDated(pf, fs, Tail(fullPaths)))

sortLoaded(loaded) == IF loaded.threw THEN loaded ELSE Return(sortByDate(loaded.value[1]))

\* export function getDateOrderedPaths(root)
getDateOrderedPaths(pf, fs, order, root) ==
  sortLoaded(loadDated(pf, fs, globSync(pf, fs, order, root)))

Blog == << "b", "l", "o", "g" >>

\* element 0 of the array, undefined when it is empty
firstOf(all) ==
  IF all.threw THEN all
  ELSE Return(IF all.value[1] = << >> THEN Undefined ELSE Some(all.value[1][1]))

\* export function getLastBlog()
getLastBlog(pf, fs, order) == firstOf(getDateOrderedPaths(pf, fs, order, Blog))

\* mutant: the body of the blog page is kept
appProps_KeepsBody(props, last) ==
  IF last.threw THEN last
  ELSE IF ~IsDefined(last.value[1]) THEN Throw(TypeError)
  ELSE Return([ page |-> props.page, menu |-> props.menu,
                app  |-> [blog |-> last.value[1][1]] ])

\* mutant: a missing blog page is tolerated
appProps_NoBlogOk(props, last) ==
  IF last.threw THEN last
  ELSE IF ~IsDefined(last.value[1])
    THEN Return([page |-> props.page, menu |-> props.menu, app |-> [blog |-> Undefined]])
  ELSE Return([ page |-> props.page, menu |-> props.menu,
                app  |-> [blog |-> [last.value[1][1] EXCEPT !.body = Undefined]] ])

\* api.ts 15-20: delete blog.body throws when blog is undefined
appProps(props, last) ==
  IF last.threw THEN last
  ELSE IF ~IsDefined(last.value[1]) THEN Throw(TypeError)
  ELSE Return([ page |-> props.page, menu |-> props.menu,
                app  |-> [blog |-> [last.value[1][1] EXCEPT !.body = Undefined]] ])

\* export function withAppProps(props)
withAppProps(pf, fs, order, props) == appProps(props, getLastBlog(pf, fs, order))

(***************************************************************************)
(* Props Assembler.  getProps runs to its await on the renderer            *)
(* (getPropsBegin) and, once the markup is there, to its end               *)
(* (getPropsFinish).                                                       *)
(***************************************************************************)
\* what the call holds at the await: the root, the page and the rendering
awaiting(root, r) ==
  IF r.threw THEN r
  ELSE Return([root |-> root, page |-> r.value[1], rendering |-> toHTML(r.value[1].body)])

beginJoined(pf, fs, joined) ==
  awaiting(Split(joined, { Sep(pf) })[1], loadPage(pf, fs, joined))

\* mutant: the slug is joined with "/" whatever the platform
getPropsBegin_SlashJoined(pf, fs, slug) == beginJoined(pf, fs, JoinWith(slug, "/"))

\* api.ts 59-65, up to the await
getPropsBegin(pf, fs, slug) == beginJoined(pf, fs, JoinWith(slug, Sep(pf)))

\* api.ts 75-82
assembled(pf, fs, order, page, normalized) ==
  withAppProps(pf, fs, order, [page |-> setPrevNext(page, normalized), menu |-> normalized])

\* mutant: the entry wrapping the section carries the section's own page
wrapped_WithRootPage(pf, fs, order, page, root, title, nested) ==
  IF nested.threw THEN nested
  ELSE assembled(pf, fs, order, page,
                 << [key |-> root, title |-> title, page |-> loadMenuPage(pf, fs, root).value,
                     nested |-> nested.value] >>)

\* api.ts 67-73
wrapped(pf, fs, order, page, root, title, nested) ==
  IF nested.threw THEN nested
  ELSE assembled(pf, fs, order, page,
                 << [key |-> root, title |-> title, page |-> Undefined,
                     nested |-> nested.value] >>)

\* menu[root].title and menu[root].nested throw when the sitemap has no such key
inSection(pf, fs, order, page, root, section) ==
  IF ~IsDefined(section) THEN Throw(TypeError)
  ELSE wrapped(pf, fs, order, page, root, section[1].title,
               normalize(pf, fs, section[1].nested, root))

\* api.ts 65-82, from the await on
getPropsFinish(pf, fs, order, menu, root, page, html) ==
  inSection(pf, fs, order, [page EXCEPT !.body = html], root, Lookup(menu, root))

(***************************************************************************)
(* State.                                                                  *)
(***************************************************************************)
VARIABLES
  platform,   \* "posix" or "win32": which path module the process runs with
  files,      \* the content files: resolved path |-> [data, content]
  globOrder,  \* the order in which the file system enumerates the files
  sitemap,    \* the static sitemap: a mapping of top-level key to node
  arg,        \* the input of the call under way
  pc,         \* the position of the call under way
  ret,        \* what the last call returned or threw
  ret0,       \* what the call before it returned
  calls       \* the getProps invocations under way

vars == << platform, files, globOrder, sitemap, arg, pc, ret, ret0, calls >>

world == << platform, files, globOrder, sitemap >>

NoCalls == << >>

NoRet == Return(<< >>)

(***************************************************************************)
(* Content files of the model.  A file is named by its segments below the  *)
(* content directory; its front matter follows one of four profiles.       *)
(***************************************************************************)
\* the full path of the file with the given segments below the content directory
FullPathOf(pf, segs) ==
  Normalize(pf, contentDir(pf)) \o << Sep(pf) >> \o JoinWith(segs, Sep(pf))

Profiles == { "full", "titled", "menu", "bare" }

\* what gray-matter reads from the file: titles and bodies name the file
FileNamed(profile, name, date) ==
  [ data    |-> [ title       |-> IF profile \in { "full", "titled" }
                                    THEN Some(<< "T", ":" >> \o name) ELSE Undefined,
                  menu        |-> IF profile \in { "full", "menu" }
                                    THEN Some(<< "M", ":" >> \o name) ELSE Undefined,
                  description |-> IF profile = "full"
                                    THEN Some(<< "D", ":" >> \o name) ELSE Undefined,
                  date        |-> date ],
    content |-> << "#" >> \o name ]

FileOf(profile, segs, date) == FileNamed(profile, JoinWith(segs, "/"), date)

\* the file of the set that has the full path p
SegsAt(pf, fileSegs, p) == CHOOSE g \in fileSegs : FullPathOf(pf, g) = p

\* the file system holding the files of the set (of segment sequences), each
\* with the front matter profile and the date given for it
FileSystem(pf, fileSegs, profileOf(_), dateOf(_)) ==
  [p \in { FullPathOf(pf, g) : g \in fileSegs } |->
     FileOf(profileOf(SegsAt(pf, fileSegs, p)), SegsAt(pf, fileSegs, p),
            dateOf(SegsAt(pf, fileSegs, p)))]

NoDate(g) == Undefined

\* <s>.md and <s>/index.md as file segments, for slug segments s
MdFile(slug) == SubSeq(slug, 1, Len(slug) - 1) \o << Last(slug) \o DotMd >>

IndexFile(slug) == Append(slug, IndexMd)

\* whether the file with these segments exists
HasFile(segs) == FullPathOf(platform, segs) \in DOMAIN files

(***************************************************************************)
(* Inputs of the page loader.                                              *)
(***************************************************************************)
KeyChain == << << "a" >>, << "b" >>, << "c" >>, << "d" >> >>

\* the slugs of the model: a, a/b, ... up to MaxSegs segments
Slugs == { SubSeq(KeyChain, 1, n) : n \in 1..MaxSegs }

\* a slug with no file behind it
GhostSlug == << << "a" >>, << "z" >> >>

\* a path outside the content directory
OutsideSlug == << << "x" >>, << "a" >> >>

RECURSIVE JoinAny(_, _)
\* the texts of a slug: its segments joined, each join by any of the separators
JoinAny(segs, seps) ==
  IF Len(segs) = 1 THEN { segs[1] }
  ELSE { segs[1] \o << c >> \o rest : c \in seps, rest \in JoinAny(Tail(segs), seps) }

\* a slug in the separator styles the platform reads as separators
SlugTexts(pf, segs) == JoinAny(segs, PathSeparators(pf))

LoadInput(kind, segs, text) == [kind |-> kind, segs |-> segs, text |-> text]

ContentRoots(pf) ==
  { contentDir(pf) \o << "/" >>, Normalize(pf, contentDir(pf)) \o << Sep(pf) >> }

\* relative slugs, "./"-prefixed slugs, absolute paths inside the content
\* directory, and an absolute path outside it
LoadInputs(pf) ==
  UNION { { LoadInput("relative", g, t) : t \in SlugTexts(pf, g) }
          : g \in Slugs \cup { GhostSlug } }
  \cup UNION { { LoadInput("dotslash", g, << ".", "/" >> \o t) : t \in SlugTexts(pf, g) }
               : g \in Slugs \cup { GhostSlug } }
  \cup UNION { { LoadInput("inside", g, r \o t) : r \in ContentRoots(pf), t \in SlugTexts(pf, g) }
               : g \in Slugs \cup { GhostSlug } }
  \cup { LoadInput("outside", OutsideSlug, << "/" >> \o JoinWith(OutsideSlug, "/")) }

\* the files a slug of the model may be backed by
LoadFiles == UNION { { MdFile(g), IndexFile(g) } : g \in Slugs }

(***************************************************************************)
(* SpecLoad: the page loader on one input, then once more on the href it   *)
(* returned.                                                               *)
(***************************************************************************)
InitLoad ==
  /\ platform \in Platforms
  /\ \E F \in SUBSET LoadFiles, profile \in Profiles :
       files = FileSystem(platform, F, LAMBDA g : profile, NoDate)
  /\ globOrder = << >>
  /\ sitemap = << >>
  /\ arg \in LoadInputs(platform)
  /\ pc = "start"
  /\ ret = NoRet
  /\ ret0 = NoRet
  /\ calls = NoCalls

LoadPage ==
  /\ pc = "start"
  /\ ret' = loadPage(platform, files, arg.text)
  /\ ret0' = ret
  /\ pc' = "loaded"
  /\ UNCHANGED << world, arg, calls >>

\* loadPage(loadPage(s).href) after stripping the leading slash
LoadPageAgain ==
  /\ pc = "loaded"
  /\ ~ret.threw
  /\ ret' = loadPage(platform, files, Substring(ret.value[1].href, 1))
  /\ ret0' = ret
  /\ pc' = "reloaded"
  /\ UNCHANGED << world, arg, calls >>

NextLoad == LoadPage \/ LoadPageAgain

SpecLoad == InitLoad /\ [][NextLoad]_vars

(***************************************************************************)
(* Properties of the page loader (SpecLoad).                               *)
(***************************************************************************)
\* the page the last call returned
Page == ret.value[1]

\* C5: when neither <s>.md nor <s>/index.md exists under the content root,
\* loadPage(s) throws an error naming both attempted paths, <s>.md first,
\* and returns no page.
C5_MissingFileThrows ==
  (pc = "loaded" /\ ~HasFile(MdFile(arg.segs)) /\ ~HasFile(IndexFile(arg.segs)))
    => /\ ret.threw
       /\ ret.value = << >>
       /\ ret.error[1].name = "ENOENT"
       /\ ret.error[1].tried = << FullPathOf(platform, MdFile(arg.segs)),
                                  FullPathOf(platform, IndexFile(arg.segs)) >>

C5_Witness ==
  /\ pc = "loaded"
  /\ arg.segs = GhostSlug
  /\ platform = "win32"
  /\ ret.threw
  /\ files # << >>

\* C6: when <s>.md exists (also when <s>/index.md exists too) loadPage(s)
\* reads <s>.md and reports mdPath = <s>.md; <s>/index.md is read, and
\* reported, only when <s>.md does not exist.
C6_MdBeforeIndex ==
  /\ (pc = "loaded" /\ HasFile(MdFile(arg.segs)))
       => /\ ~ret.threw
          /\ Page.mdPath = JoinWith(MdFile(arg.segs), "/")
          /\ Page.body = files[FullPathOf(platform, MdFile(arg.segs))].content
  /\ (pc = "loaded" /\ ~HasFile(MdFile(arg.segs)) /\ HasFile(IndexFile(arg.segs)))
       => /\ ~ret.threw
          /\ Page.mdPath = JoinWith(IndexFile(arg.segs), "/")
          /\ Page.body = files[FullPathOf(platform, IndexFile(arg.segs))].content

C6_Witness ==
  /\ pc = "loaded"
  /\ HasFile(MdFile(arg.segs))
  /\ HasFile(IndexFile(arg.segs))
  /\ Len(arg.segs) = 2
  /\ ~ret.threw
  /\ Page.mdPath = JoinWith(MdFile(arg.segs), "/")

\* C7: for a root-relative slug s with a backing file, loadPage(s).href is
\* "/" followed by the segments of s joined by forward slashes, whichever
\* separators the input used; href holds no back-slash.
C7_HrefForwardSlashes ==
  (pc = "loaded" /\ arg.kind = "relative" /\ ~ret.threw)
    => /\ Page.href = << "/" >> \o JoinWith(arg.segs, "/")
       /\ \A i \in 1..Len(Page.href) : Page.href[i] # "\\"

C7_Witness ==
  /\ pc = "loaded"
  /\ arg.kind = "relative"
  /\ \E i \in 1..Len(arg.text) : arg.text[i] = "\\"
  /\ ~ret.threw
  /\ Page.href = << "/", "a", "/", "b" >>

\* C8: loading the page again from loadPage(s).href without its leading
\* slash succeeds and yields the same mdPath and the same href.
C8_ReloadIdempotent ==
  pc = "reloaded"
    => /\ ~ret.threw
       /\ Page.mdPath = ret0.value[1].mdPath
       /\ Page.href = ret0.value[1].href

C8_Witness ==
  /\ pc = "reloaded"
  /\ \E i \in 1..Len(arg.text) : arg.text[i] = "\\"
  /\ ~ret.threw
  /\ Page.mdPath = JoinWith(IndexFile(arg.segs), "/")
  /\ Page.mdPath = ret0.value[1].mdPath

(***************************************************************************)
(* SpecLink: the prev/next linker on a normalized menu, wrapped in the     *)
(* entry of its section as getProps wraps it, and a target page.           *)
(***************************************************************************)
ChildChain == << << "x" >>, << "y" >>, << "z" >>, << "v" >> >>

Section == << "t" >>

EntryKinds ==
  { [kind |-> "page", n |-> 0], [kind |-> "stub", n |-> 0] }
  \cup { [kind |-> "section", n |-> k] : k \in 0..MaxChildren }

\* the shapes of a menu level: one kind for each of its entries
MenuShapes == UNION { [1..n -> EntryKinds] : n \in 1..MaxPages }

\* the menu page loadMenuPage returns for the page of these segments; the
\* page of the untitled key has neither title nor menu in its front matter
LoadedMenuPage(segs, untitled) ==
  menuPageOf(Return(PageRecord("posix", JoinWith(segs, "/"), JoinWith(MdFile(segs), "/"),
                               FileOf(IF Last(segs) = untitled THEN "bare" ELSE "full",
                                      MdFile(segs), Undefined)))).value

ExternalHref(key) == << "h", ":" >> \o key

\* the menu entry normalize builds for an entry of the given kind
ShapedEntry(kind, key, untitled) ==
  IF kind.kind = "stub" THEN stubEntry(key, Node(Some(ExternalHref(key)), NoNested))
  ELSE IF kind.kind = "page"
    THEN MenuEntry(LoadedMenuPage(<< Section, key >>, untitled), Undefined)
  ELSE MenuEntry(LoadedMenuPage(<< Section, key >>, untitled),
                 Some([i \in 1..kind.n |->
                         MenuEntry(LoadedMenuPage(<< Section, key, ChildChain[i] >>, untitled),
                                   Undefined)]))

\* the normalized menu of a shape, as getProps wraps it (api.ts 67-73)
ShapedMenu(shape, untitled) ==
  << [ key |-> Section, title |-> Undefined, page |-> Undefined,
       nested |-> Some([i \in 1..Len(shape) |-> ShapedEntry(shape[i], KeyChain[i], untitled)]) ] >>

RECURSIVE Flatten(_)
\* the pages of a menu that carry data, depth first, a parent before its children
Flatten(menu) ==
  IF menu = << >> THEN << >>
  ELSE (IF HasPageData(Head(menu)) THEN << Head(menu).page[1] >> ELSE << >>)
       \o (IF IsDefined(Head(menu).nested) THEN Flatten(Head(menu).nested[1]) ELSE << >>)
       \o Flatten(Tail(menu))

\* the page record loadPage returns for the page with this href
TargetPage(href) ==
  PageRecord("posix", Substring(href, 1), Substring(href, 1) \o DotMd,
             FileNamed("full", Substring(href, 1) \o DotMd, Undefined))

GhostHref == << "/", "t", "/", "q" >>

\* the targets for a menu: each of its pages, and a page that is not in it
Targets(menu) == { TargetPage(p.href) : p \in { Flatten(menu)[i] : i \in 1..Len(Flatten(menu)) } }
                 \cup { TargetPage(GhostHref) }

Untitled == { << "-" >>, KeyChain[1], ChildChain[1] }

InitLink ==
  /\ platform = "posix"
  /\ files = << >>
  /\ globOrder = << >>
  /\ sitemap = << >>
  /\ \E shape \in MenuShapes, untitled \in Untitled :
       \E page \in Targets(ShapedMenu(shape, untitled)) :
         arg = [page |-> page, menu |-> ShapedMenu(shape, untitled), shape |-> shape]
  /\ pc = "start"
  /\ ret = NoRet
  /\ ret0 = NoRet
  /\ calls = NoCalls

SetPrevNext ==
  /\ pc = "start"
  /\ ret' = Return(setPrevNext(arg.page, arg.menu))
  /\ ret0' = ret
  /\ pc' = "linked"
  /\ UNCHANGED << world, arg, calls >>

\* eachPage(menu, f, undefined, undefined) with an f that records its calls
EachPage ==
  /\ pc = "start"
  /\ ret' = Return(eachPage(arg.menu, Undefined, Undefined))
  /\ ret0' = ret
  /\ pc' = "visited"
  /\ UNCHANGED << world, arg, calls >>

RECURSIVE withLinks(_, _)
\* the menu whose entry for the page carries the links of the page
withLinks(menu, page) ==
  [i \in 1..Len(menu) |->
     [menu[i] EXCEPT
        !.page   = IF IsDefined(@) /\ @[1].href = page.href
                     THEN Some([ key |-> @[1].key, href |-> @[1].href, title |-> @[1].title,
                                 data |-> @[1].data, prev |-> page.prev, next |-> page.next ])
                   ELSE @,
        !.nested = IF IsDefined(@) THEN Some(withLinks(@[1], page)) ELSE @ ]]

\* mutant: the target is the very record of its menu entry, so the entry of
\* the menu carries the links as well
inPlace_SharedRecord(page, menu) == [page |-> page, menu |-> withLinks(menu, page)]

\* the two objects setPrevNext was given, as the call leaves them: the
\* callback assigns to page.prev and page.next and to nothing else
\* (api.ts 95, 101), and page is no object of the menu
inPlace(page, menu) == [page |-> page, menu |-> menu]

\* setPrevNext(page, menu), with the menu as it is after the call
SetPrevNextInPlace ==
  /\ pc = "start"
  /\ ret' = Return(inPlace(setPrevNext(arg.page, arg.menu), arg.menu))
  /\ ret0' = ret
  /\ pc' = "inplace"
  /\ UNCHANGED << world, arg, calls >>

NextLink == SetPrevNext \/ EachPage \/ SetPrevNextInPlace

SpecLink == InitLink /\ [][NextLink]_vars

(***************************************************************************)
(* Properties of the prev/next linker (SpecLink).                          *)
(***************************************************************************)
\* the flattened list of the menu the linker was given
L == Flatten(arg.menu)

\* the index of the target in the flattened list, 0 when it is not in it
TargetIndex == Least({ i \in 1..Len(L) : L[i].href = arg.page.href })

AllTitled == \A i \in 1..Len(L) : Truthy(L[i].title)

\* a menu of file-backed pages only, none of them with children
IsFlat == \A i \in 1..Len(arg.shape) : arg.shape[i].kind = "page"

\* the href of an optional link
HrefOf(link) == IF IsDefined(link) THEN Some(link[1].href) ELSE Undefined

\* prev and next as the list gives them for the target at index i
ListPrev(i) == IF i > 1 THEN Some(L[i - 1].href) ELSE Undefined

ListNext(i) == IF i < Len(L) THEN Some(L[i + 1].href) ELSE Undefined

\* C1: on a flat menu of n file-backed pages with distinct hrefs and
\* non-empty titles, the target at position i gets prev.href = the href of
\* the page at i-1 (no prev when it is the first) and next.href = the href
\* of the page at i+1 (no next when it is the last).
C1_FlatPrevNext ==
  (pc = "linked" /\ IsFlat /\ AllTitled /\ TargetIndex > 0)
    => /\ HrefOf(Page.prev) = ListPrev(TargetIndex)
       /\ HrefOf(Page.next) = ListNext(TargetIndex)

C1_Witness ==
  /\ pc = "linked"
  /\ IsFlat
  /\ AllTitled
  /\ Len(L) = 3
  /\ TargetIndex = 2
  /\ HrefOf(Page.prev) = Some(L[1].href)
  /\ HrefOf(Page.next) = Some(L[3].href)

\* C2: on every normalized menu (sections with nested children included)
\* and for every target in it, the traversal yields the prev and next of the
\* flattened list: prev = L[i-1] and next = L[i+1].  Stated for menus whose
\* pages all carry a title.
C2_TraversalEqualsList ==
  (pc = "linked" /\ AllTitled /\ TargetIndex > 0)
    => /\ HrefOf(Page.prev) = ListPrev(TargetIndex)
       /\ HrefOf(Page.next) = ListNext(TargetIndex)

(***************************************************************************)
(* Sitemaps of the model: the section t, a mapping of up to MaxKeys keys   *)
(* in some rotation of their chain, one of them with a node of any shape,  *)
(* and a second section u.                                                 *)
(***************************************************************************)
OtherSection == << "u" >>

ExternalLink(k) == Node(Some(ExternalHref(k)), NoNested)

\* the sequence s started at its r-th element
Rotated(s, r) == SubSeq(s, r, Len(s)) \o SubSeq(s, 1, r - 1)

ChildLists ==
  { << >> } \cup UNION { { Rotated(SubSeq(ChildChain, 1, n), r) : r \in 1..n } : n \in 1..MaxNested }

\* a mapping one level further down: a page and an external link
DeeperMapping ==
  << Entry(ChildChain[1], EmptyNode), Entry(ChildChain[2], ExternalLink(ChildChain[2])) >>

Shape(kind, children) == [kind |-> kind, children |-> children]

\* the shapes of a node: a page, an external link, a page with a list of
\* children, a page with a deeper mapping, an external link with children
NodeShapes ==
  { Shape("page", << >>), Shape("link", << >>), Shape("mapping", << >>),
    Shape("linklist", << ChildChain[1] >>) }
  \cup { Shape("list", c) : c \in ChildLists }

\* the node of a shape for the key k
ShapedNode(k, shape) ==
  IF shape.kind = "page" THEN EmptyNode
  ELSE IF shape.kind = "link" THEN ExternalLink(k)
  ELSE IF shape.kind = "mapping" THEN Node(Undefined, NestedMap(DeeperMapping))
  ELSE IF shape.kind = "linklist" THEN Node(Some(ExternalHref(k)), NestedList(shape.children))
  ELSE Node(Undefined, NestedList(shape.children))

\* a section: its keys, the position and the shape of its shaped node, and
\* whether its other nodes are external links or pages
SectionPlan(keys, s, shape, links) == [keys |-> keys, s |-> s, shape |-> shape, links |-> links]

SectionPlans ==
  UNION { { SectionPlan(Rotated(SubSeq(KeyChain, 1, n), r), s, shape, links)
            : r \in 1..n, s \in 1..n, shape \in NodeShapes, links \in BOOLEAN }
          : n \in 1..MaxKeys }

\* the mapping of a planned section
SectionOf(plan) ==
  [i \in 1..Len(plan.keys) |->
     Entry(plan.keys[i],
           IF i = plan.s THEN ShapedNode(plan.keys[i], plan.shape)
           ELSE ShapedNode(plan.keys[i], Shape(IF plan.links THEN "link" ELSE "page", << >>)))]

SecondShapes == { Shape("link", << >>), Shape("list", << ChildChain[1] >>) }

\* the sitemap of a planned section t and a second section u
SitemapOf(plan, second) ==
  << Entry(Section, Node(Undefined, NestedMap(SectionOf(plan)))),
     Entry(OtherSection, ShapedNode(OtherSection, second)) >>

(***************************************************************************)
(* SpecPaths: the path collector on a sitemap.                             *)
(***************************************************************************)
InitPaths ==
  /\ platform = "posix"
  /\ files = << >>
  /\ globOrder = << >>
  /\ \E plan \in SectionPlans, second \in SecondShapes : sitemap = SitemapOf(plan, second)
  /\ arg = << >>
  /\ pc = "start"
  /\ ret = NoRet
  /\ ret0 = NoRet
  /\ calls = NoCalls

CollectPaths ==
  /\ pc = "start"
  /\ ret' = Return(collectPaths(sitemap, << >>))
  /\ ret0' = ret
  /\ pc' = "collected"
  /\ UNCHANGED << world, arg, calls >>

GetMenuPaths ==
  /\ pc = "start"
  /\ ret' = Return(getMenuPaths(sitemap))
  /\ ret0' = ret
  /\ pc' = "paths"
  /\ UNCHANGED << world, arg, calls >>

NextPaths == CollectPaths \/ GetMenuPaths

SpecPaths == InitPaths /\ [][NextPaths]_vars

(***************************************************************************)
(* Properties of the path collector (SpecPaths).                           *)
(***************************************************************************)
\* the children a node declares, as a mapping
ChildrenOf(v) ==
  IF v.nested.kind = "map" THEN v.nested.items
  ELSE IF v.nested.kind = "list"
    THEN [i \in 1..Len(v.nested.items) |-> Entry(v.nested.items[i], EmptyNode)]
  ELSE << >>

RECURSIVE NodeAt(_, _)
\* the node the key sequence leads to from the level, undefined when it leads nowhere
NodeAt(level, ks) ==
  IF ~IsDefined(Lookup(level, ks[1])) THEN Undefined
  ELSE IF Len(ks) = 1 THEN Lookup(level, ks[1])
  ELSE NodeAt(ChildrenOf(Lookup(level, ks[1])[1]), Tail(ks))

AnyKeys == { KeyChain[i] : i \in 1..Len(KeyChain) } \cup { ChildChain[i] : i \in 1..Len(ChildChain) }

\* the key sequences that may lead to a node of a sitemap of the model
KeyPaths ==
  { << r >> : r \in { Section, OtherSection } }
  \cup { << r, k >> : r \in { Section, OtherSection }, k \in AnyKeys }
  \cup { << Section, k, c >> : k \in AnyKeys, c \in AnyKeys }

\* the nodes of the sitemap that have no explicit href
Routable == { ks \in KeyPaths : /\ IsDefined(NodeAt(sitemap, ks))
                                /\ ~Truthy(NodeAt(sitemap, ks)[1].href) }

\* the path of a node: "/" before each key
PathOf(ks) == << "/" >> \o JoinWith(ks, "/")

Elements(s) == { s[i] : i \in 1..Len(s) }

NoRepeats(s) == \A i, j \in 1..Len(s) : s[i] = s[j] => i = j

\* C4: the collector emits exactly one path for each node without an
\* explicit href and none for any other node, at every depth, whether the
\* children are a list of keys or a further mapping; the path of a child is
\* the path of its parent, "/" and its key; getMenuPaths has one entry for
\* each of these paths and fallback = false.
C4_OnePathPerRoutableNode ==
  /\ pc = "collected"
       => /\ Elements(ret.value[1]) = { PathOf(ks) : ks \in Routable }
          /\ NoRepeats(ret.value[1])
  /\ pc = "paths"
       => /\ Len(ret.value[1].paths) = Cardinality(Routable)
          /\ NoRepeats(ret.value[1].paths)
          /\ ret.value[1].fallback = FALSE

C4_Witness ==
  /\ pc = "collected"
  /\ << Section, KeyChain[2], ChildChain[1] >> \in Routable
  /\ NodeAt(sitemap, << Section, KeyChain[2] >>)[1].nested.kind = "map"
  /\ IsDefined(NodeAt(sitemap, << Section, KeyChain[2], ChildChain[2] >>))
  /\ << Section, KeyChain[2], ChildChain[2] >> \notin Routable
  /\ Truthy(NodeAt(sitemap, << Section, KeyChain[1] >>)[1].href)
  /\ << "/", "t", "/", "b", "/", "x" >> \in Elements(ret.value[1])

(***************************************************************************)
(* Content files of a section: every page the sitemaps of the model may    *)
(* declare below t, as <path>.md or as <path>/index.md, but for one page   *)
(* that may be missing.                                                    *)
(***************************************************************************)
SectionSlugs ==
  { << Section >> }
  \cup { << Section, KeyChain[i] >> : i \in 1..MaxKeys }
  \cup { << Section, KeyChain[i], ChildChain[j] >> : i \in 1..MaxKeys, j \in 1..MaxNested }

Missable == { << Section >>, << Section, KeyChain[1] >>, << Section, KeyChain[2] >>,
              << Section, KeyChain[1], ChildChain[1] >> }

FileVariant(style, missing) == [style |-> style, missing |-> missing]

FileVariants ==
  { FileVariant("md", << >>), FileVariant("index", << >>) }
  \cup { FileVariant("md", g) : g \in Missable }

ContentFiles(variant) ==
  { IF variant.style = "md" THEN MdFile(g) ELSE IndexFile(g)
    : g \in SectionSlugs \ { variant.missing } }

FullProfile(g) == "full"

(***************************************************************************)
(* SpecNorm: the menu normalizer on the mapping of a section.              *)
(***************************************************************************)
InitNorm ==
  /\ platform \in Platforms
  /\ \E variant \in FileVariants :
       files = FileSystem(platform, ContentFiles(variant), FullProfile, NoDate)
  /\ globOrder = << >>
  /\ sitemap = << >>
  /\ \E plan \in SectionPlans : arg = [menu |-> NestedMap(SectionOf(plan)), root |-> Section]
  /\ pc = "start"
  /\ ret = NoRet
  /\ ret0 = NoRet
  /\ calls = NoCalls

NormalizeMenu ==
  /\ pc = "start"
  /\ ret' = normalize(platform, files, arg.menu, arg.root)
  /\ ret0' = ret
  /\ pc' = "normalized"
  /\ UNCHANGED << world, arg, calls >>

\* the call collectPaths makes for the mapping of the section (api.ts 135),
\* after the section was normalized
CollectSection ==
  /\ pc = "normalized"
  /\ ret' = Return(collectPaths(arg.menu.items, PathOf(<< arg.root >>)))
  /\ ret0' = ret
  /\ pc' = "compared"
  /\ UNCHANGED << world, arg, calls >>

NextNorm == NormalizeMenu \/ CollectSection

SpecNorm == InitNorm /\ [][NextNorm]_vars

(***************************************************************************)
(* Properties of the menu normalizer (SpecNorm).                           *)
(***************************************************************************)
\* the keys of the entries of a normalized menu, in their order
EntryKeys(menu) == [i \in 1..Len(menu) |-> menu[i].page[1].key]

\* the keys of a mapping, in iteration order
MappingKeys(level) == [i \in 1..Len(level) |-> level[i].k]

\* the keys of the nested entries of each entry of a normalized menu
NestedKeys(menu) ==
  [i \in 1..Len(menu) |->
     IF IsDefined(menu[i].nested) THEN EntryKeys(menu[i].nested[1]) ELSE << >>]

\* the lists of child keys a mapping declares for its pages
DeclaredLists(level) ==
  [i \in 1..Len(level) |->
     IF ~Truthy(level[i].v.href) /\ level[i].v.nested.kind = "list"
       THEN level[i].v.nested.items ELSE << >>]

\* C3: the entries normalize produces have their keys in exactly the
\* iteration order of the section mapping, and for a key whose nested value
\* is a list of child keys the nested entries have exactly the keys of the
\* list, in the order of the list.
C3_KeysInInputOrder ==
  (pc = "normalized" /\ ~ret.threw)
    => /\ EntryKeys(ret.value[1]) = MappingKeys(arg.menu.items)
       /\ NestedKeys(ret.value[1]) = DeclaredLists(arg.menu.items)

(***************************************************************************)
(* SpecDates: the date-ordered collection blog, up to MaxPosts dated pages *)
(* which the file system enumerates in any order, next to a file the glob  *)
(* does not match.                                                         *)
(***************************************************************************)
PostChain == << << "p" >>, << "q" >>, << "r" >>, << "s" >> >>

PostFile(i) == << Blog, PostChain[i] \o DotMd >>

\* a markdown file in a directory below the collection
DeeperFile == << Blog, << "o" >>, << "n" >> \o DotMd >>

Dates == { << 2023, 1, 1 >>, << 2024, 6, 15 >>, << 2022, 12, 31 >> }

\* the files of n posts
PostFiles(n) == { PostFile(i) : i \in 1..n }

\* the number of the post with the given file
PostOf(g) == CHOOSE i \in 1..Len(PostChain) : PostFile(i) = g

\* the enumeration of the file system: the deeper file, then the posts in the order given
Enumeration(pf, order) ==
  << FullPathOf(pf, DeeperFile) >> \o [i \in 1..Len(order) |-> FullPathOf(pf, PostFile(order[i]))]

\* the orders of n posts
Orders(n) == { o \in [1..n -> 1..n] : \A i, j \in 1..n : o[i] = o[j] => i = j }

\* props as getProps hands them to withAppProps: a page and a menu
SampleProps ==
  [ page |-> TargetPage(PathOf(<< Section, KeyChain[1] >>)),
    menu |-> ShapedMenu(<< [kind |-> "page", n |-> 0] >>, KeyChain[2]) ]

InitDates ==
  /\ platform \in Platforms
  /\ \E n \in 0..MaxPosts :
       \E dates \in [1..n -> Dates], order \in Orders(n) :
         /\ files = FileSystem(platform, PostFiles(n) \cup { DeeperFile }, FullProfile,
                               LAMBDA g : IF g = DeeperFile THEN Undefined
                                          ELSE Some(dates[PostOf(g)]))
         /\ globOrder = Enumeration(platform, order)
  /\ sitemap = << >>
  /\ arg = [root |-> Blog, props |-> SampleProps]
  /\ pc = "start"
  /\ ret = NoRet
  /\ ret0 = NoRet
  /\ calls = NoCalls

GetDateOrderedPaths ==
  /\ pc = "start"
  /\ ret' = getDateOrderedPaths(platform, files, globOrder, arg.root)
  /\ ret0' = ret
  /\ pc' = "ordered"
  /\ UNCHANGED << world, arg, calls >>

GetLastBlog ==
  /\ pc = "start"
  /\ ret' = getLastBlog(platform, files, globOrder)
  /\ ret0' = ret
  /\ pc' = "last"
  /\ UNCHANGED << world, arg, calls >>

WithAppProps ==
  /\ pc = "start"
  /\ ret' = withAppProps(platform, files, globOrder, arg.props)
  /\ ret0' = ret
  /\ pc' = "app"
  /\ UNCHANGED << world, arg, calls >>

NextDates == GetDateOrderedPaths \/ GetLastBlog \/ WithAppProps

SpecDates == InitDates /\ [][NextDates]_vars

(***************************************************************************)
(* Properties of the date-ordered collection (SpecDates).                  *)
(***************************************************************************)
\* the files of the collection the glob matches, in the order of the enumeration
Globbed == SelectSeq(globOrder, LAMBDA f : \E i \in 1..Len(PostChain) : f = FullPathOf(platform, PostFile(i)))

\* the position in the enumeration of the file a page was loaded from
EnumeratedAt(page) ==
  CHOOSE j \in 1..Len(globOrder) :
    globOrder[j] = FullPathOf(platform, Split(page.mdPath, { "/" }))

\* d is the same day as e or a later one
NotBefore(d, e) ==
  \/ d[1] > e[1]
  \/ d[1] = e[1] /\ d[2] > e[2]
  \/ d[1] = e[1] /\ d[2] = e[2] /\ d[3] >= e[3]

\* the front-matter date of a page
DateOf(page) == page.data.date[1]

\* C9: getDateOrderedPaths returns every page of the collection exactly
\* once, by front-matter date descending, pages of the same date in the
\* order of the file system enumeration; getLastBlog returns a page whose
\* date is the maximum of the collection.
C9_DateOrdered ==
  /\ pc = "ordered"
       => /\ ~ret.threw
          /\ Len(ret.value[1]) = Len(Globbed)
          /\ { globOrder[EnumeratedAt(ret.value[1][i])] : i \in 1..Len(ret.value[1]) }
               = Elements(Globbed)
          /\ \A i, j \in 1..Len(ret.value[1]) :
               i < j => /\ NotBefore(DateOf(ret.value[1][i]), DateOf(ret.value[1][j]))
                        /\ DateOf(ret.value[1][i]) = DateOf(ret.value[1][j])
                             => EnumeratedAt(ret.value[1][i]) < EnumeratedAt(ret.value[1][j])
  /\ (pc = "last" /\ Globbed # << >>)
       => /\ ~ret.threw
          /\ IsDefined(ret.value[1])
          /\ \A i \in 1..Len(Globbed) :
               NotBefore(DateOf(ret.value[1][1]), files[Globbed[i]].data.date[1])

C9_Witness ==
  /\ pc = "ordered"
  /\ platform = "win32"
  /\ Len(Globbed) = 3
  /\ ~ret.threw
  /\ DateOf(ret.value[1][1]) = << 2024, 6, 15 >>
  /\ DateOf(ret.value[1][2]) = << 2023, 1, 1 >>
  /\ DateOf(ret.value[1][3]) = << 2023, 1, 1 >>
  /\ EnumeratedAt(ret.value[1][1]) = 4
  /\ EnumeratedAt(ret.value[1][2]) = 2

(***************************************************************************)
(* SpecProps: one getProps call on a sitemap with the section t and a      *)
(* section u that has no files, content files for t, and a blog of two     *)
(* posts or none.                                                          *)
(***************************************************************************)
\* the shapes whose children are the first keys of their chain
PlainShapes == { shape \in NodeShapes : shape.children = SubSeq(ChildChain, 1, Len(shape.children)) }

PropsPlans ==
  UNION { { SectionPlan(SubSeq(KeyChain, 1, n), s, shape, FALSE) : s \in 1..n, shape \in PlainShapes }
          : n \in 1..MaxKeys }

\* a page that is neither in the sitemap nor on disk
UnknownSlug == << Section, << "q" >> >>

PropsSlugs == Missable \cup { UnknownSlug }

BlogSizes == { 0, 2 }

\* the first post is the older one
BlogDate(g) == IF g = PostFile(1) THEN Some(<< 2023, 1, 1 >>)
               ELSE IF g = PostFile(2) THEN Some(<< 2024, 6, 15 >>)
               ELSE Undefined

InitProps ==
  /\ platform \in Platforms
  /\ \E variant \in FileVariants, n \in BlogSizes :
       /\ files = FileSystem(platform, ContentFiles(variant) \cup PostFiles(n), FullProfile, BlogDate)
       /\ globOrder = Enumeration(platform, [i \in 1..n |-> i])
  /\ \E plan \in PropsPlans : sitemap = SitemapOf(plan, Shape("list", << ChildChain[1] >>))
  /\ \E slug \in PropsSlugs : arg = [slug |-> slug]
  /\ pc = "start"
  /\ ret = NoRet
  /\ ret0 = NoRet
  /\ calls = NoCalls

\* the call got to r
Reached(r, position) ==
  /\ ret' = r
  /\ ret0' = ret
  /\ pc' = IF r.threw THEN "failed" ELSE position
  /\ UNCHANGED << world, arg, calls >>

\* getProps up to the await on the renderer
GetPropsBegin ==
  /\ pc = "start"
  /\ Reached(getPropsBegin(platform, files, arg.slug), "awaiting")

\* getProps from the await to its end
GetPropsFinish ==
  /\ pc = "awaiting"
  /\ Reached(getPropsFinish(platform, files, globOrder, sitemap, ret.value[1].root,
                            ret.value[1].page, ret.value[1].rendering),
             "done")

NextProps == GetPropsBegin \/ GetPropsFinish

SpecProps == InitProps /\ [][NextProps]_vars

(***************************************************************************)
(* Properties of the props assembler (SpecProps).                          *)
(***************************************************************************)
\* neither <slug>.md nor <slug>/index.md exists
Unbacked(slug) == ~HasFile(MdFile(slug)) /\ ~HasFile(IndexFile(slug))

\* the file-backed nodes of a section: the nodes below it that carry no
\* href and are not below an external link
FileBackedNodes(root) ==
  { ks \in KeyPaths : /\ Len(ks) > 1
                      /\ ks[1] = root
                      /\ \A n \in 2..Len(ks) :
                           /\ IsDefined(NodeAt(sitemap, SubSeq(ks, 1, n)))
                           /\ ~Truthy(NodeAt(sitemap, SubSeq(ks, 1, n))[1].href) }

\* the target of the call or a file-backed node of its section has no file
SomeFileMissing ==
  \/ Unbacked(arg.slug)
  \/ \E ks \in FileBackedNodes(arg.slug[1]) : Unbacked(ks)

\* C10: when the target page or a file-backed node of the requested section
\* has neither <path>.md nor <path>/index.md, getProps fails with the error
\* of the page loader and returns no props; it returns props only when
\* every such file exists.
C10_NoPartialResult ==
  /\ (pc \in { "failed", "done" } /\ SomeFileMissing)
       => /\ ret.threw
          /\ ret.value = << >>
          /\ ret.error[1].name = "ENOENT"
  /\ pc = "done" => ~ret.threw /\ ~SomeFileMissing

(***************************************************************************)
(* Further properties of the menu normalizer (SpecNorm).                   *)
(***************************************************************************)
\* every page the section may declare has a file
AllBacked == \A g \in SectionSlugs : ~Unbacked(g)

\* the positions of the keys of a mapping whose nested value is a mapping
MappingPositions(level) ==
  { i \in 1..Len(level) : ~Truthy(level[i].v.href) /\ level[i].v.nested.kind = "map" }

\* the hrefs of the pages of a normalized menu
HrefsIn(menu) == { menu[i].page[1].href : i \in 1..Len(menu) }

\* C11: for a key of the section whose nested value is a mapping, normalize
\* recurses into the mapping with the prefix <root>/<key> and produces
\* entries for the pages declared there: the page <root>/<key>/<child> of a
\* child without href is covered by the nested entries of the key.
C11_NestedMappingRecursion ==
  (pc = "normalized" /\ AllBacked /\ MappingPositions(arg.menu.items) # { })
    => /\ ~ret.threw
       /\ \A i \in MappingPositions(arg.menu.items) :
            /\ IsDefined(ret.value[1][i].nested)
            /\ PathOf(<< arg.root, arg.menu.items[i].k, ChildChain[1] >>)
                 \in HrefsIn(ret.value[1][i].nested[1])

(***************************************************************************)
(* Further properties of the path collector (SpecPaths).                   *)
(***************************************************************************)
\* the slug arrays getMenuPaths returned
EmittedSlugs == { ret.value[1].paths[i].params.slug : i \in 1..Len(ret.value[1].paths) }

\* C12 as stated: for every routable node reached through k1/.../kn the
\* emitted slug array is [k2, ..., kn], the path without its first key.
C12_SlugWithoutFirstKey ==
  pc = "paths" => EmittedSlugs = { Tail(ks) : ks \in Routable }

\* C12, amended: for every routable node reached through k1/.../kn the
\* emitted slug array is [k1, ..., kn]: the path "/k1/.../kn" split at "/"
\* without the empty piece before its leading "/"; the top-level key stays
\* the first element.
C12_SlugIsWholePath ==
  pc = "paths"
    => /\ EmittedSlugs = Routable
       /\ Len(ret.value[1].paths) = Cardinality(Routable)

C12_Witness ==
  /\ pc = "paths"
  /\ << Section, KeyChain[2], ChildChain[1] >> \in EmittedSlugs
  /\ << Section >> \in EmittedSlugs
  /\ << OtherSection, ChildChain[1] >> \in EmittedSlugs

(***************************************************************************)
(* SpecCalls: up to MaxCalls getProps invocations on one sitemap and one   *)
(* file system.  An invocation runs to its await on the renderer, others   *)
(* may run meanwhile, and it resumes when its markup is there.  What an    *)
(* invocation holds across the await are its locals root and page.         *)
(***************************************************************************)
\* the sections of the concurrent calls: all keys, the first one a page or
\* a page with all the children
CallPlans ==
  { SectionPlan(SubSeq(KeyChain, 1, MaxKeys), 1, shape, FALSE)
    : shape \in { Shape("page", << >>), Shape("list", SubSeq(ChildChain, 1, MaxNested)) } }

CallVariants == { FileVariant("md", << >>), FileVariant("md", << Section, KeyChain[2] >>) }

Call(slug, r, position) ==
  [slug |-> slug, at |-> IF r.threw THEN "failed" ELSE position, ret |-> r]

\* mutant: the locals are those of the invocation that reached the await last
HeldBy_LastAwaiting(cs, i) ==
  cs[CHOOSE j \in 1..Len(cs) :
       /\ cs[j].at = "awaiting"
       /\ \A k \in 1..Len(cs) : cs[k].at = "awaiting" => k <= j].ret.value[1]

\* the locals root and page of invocation i (api.ts 63-65)
HeldBy(cs, i) == cs[i].ret.value[1]

InitCalls ==
  /\ platform \in Platforms
  /\ \E variant \in CallVariants :
       files = FileSystem(platform, ContentFiles(variant) \cup PostFiles(2), FullProfile, BlogDate)
  /\ globOrder = Enumeration(platform, << 1, 2 >>)
  /\ \E plan \in CallPlans : sitemap = SitemapOf(plan, Shape("list", << ChildChain[1] >>))
  /\ arg = << >>
  /\ pc = "start"
  /\ ret = NoRet
  /\ ret0 = NoRet
  /\ calls = NoCalls

\* a request arrives: getProps runs up to its await
CallBegin ==
  /\ Len(calls) < MaxCalls
  /\ \E slug \in PropsSlugs :
       calls' = Append(calls, Call(slug, getPropsBegin(platform, files, slug), "awaiting"))
  /\ UNCHANGED << world, arg, pc, ret, ret0 >>

\* invocation i resumes with what it held
Resumed(i, held) ==
  calls' = [calls EXCEPT ![i] =
              Call(@.slug,
                   getPropsFinish(platform, files, globOrder, sitemap,
                                  held.root, held.page, held.rendering),
                   "done")]

\* the markup of an invocation is there: getProps runs from its await to its end
CallFinish ==
  /\ \E i \in 1..Len(calls) :
       /\ calls[i].at = "awaiting"
       /\ Resumed(i, HeldBy(calls, i))
  /\ UNCHANGED << world, arg, pc, ret, ret0 >>

NextCalls == CallBegin \/ CallFinish

SpecCalls == InitCalls /\ [][NextCalls]_vars

(***************************************************************************)
(* Properties of concurrent invocations (SpecCalls).                       *)
(***************************************************************************)
\* the rest of a call that runs alone, from what its beginning returned
AloneFrom(b) ==
  IF b.threw THEN b
  ELSE getPropsFinish(platform, files, globOrder, sitemap,
                      b.value[1].root, b.value[1].page, b.value[1].rendering)

\* what getProps returns or throws for the slug when no other call runs
RunAlone(slug) == AloneFrom(getPropsBegin(platform, files, slug))

RECURSIVE FlattenAll(_)
\* the pages of a menu, external links included, depth first, a parent
\* before its children
FlattenAll(menu) ==
  IF menu = << >> THEN << >>
  ELSE Head(menu).page
       \o (IF IsDefined(Head(menu).nested) THEN FlattenAll(Head(menu).nested[1]) ELSE << >>)
       \o FlattenAll(Tail(menu))

\* the pages of the menu the linker was given, external links included
A == FlattenAll(arg.menu)

\* an external-link leaf: a page without data
IsExternal(p) == ~IsDefined(p.data)

ExternalHrefs == { A[i].href : i \in { n \in 1..Len(A) : IsExternal(A[n]) } }

\* the file-backed pages at i and j are separated by external links only
SeparatedByLinks(i, j) ==
  /\ i + 1 < j
  /\ ~IsExternal(A[i])
  /\ ~IsExternal(A[j])
  /\ \A n \in (i + 1)..(j - 1) : IsExternal(A[n])

\* C14: external-link leaves are skipped by the traversal: neither prev nor
\* next of the target refers to the href of an external link, and two
\* file-backed pages separated only by external links are each other's
\* next and prev.  Stated for menus whose pages all carry a title.
C14_ExternalLinksSkipped ==
  (pc = "linked" /\ AllTitled)
    => /\ \A h \in ExternalHrefs : HrefOf(Page.prev) # Some(h) /\ HrefOf(Page.next) # Some(h)
       /\ \A i, j \in 1..Len(A) :
            SeparatedByLinks(i, j)
              => /\ arg.page.href = A[i].href => HrefOf(Page.next) = Some(A[j].href)
                 /\ arg.page.href = A[j].href => HrefOf(Page.prev) = Some(A[i].href)

\* the hrefs of the pages of the menu, external links included
MenuHrefs == { A[i].href : i \in 1..Len(A) }

\* C15: when the href of the target occurs nowhere in the menu, setPrevNext
\* completes without error and returns the page with neither prev nor next
\* and every other field as it was.
C15_AbsentTargetUntouched ==
  (pc = "linked" /\ arg.page.href \notin MenuHrefs)
    => /\ ~ret.threw
       /\ Page.prev = Undefined
       /\ Page.next = Undefined
       /\ Page = arg.page

C15_Witness ==
  /\ pc = "linked"
  /\ arg.page.href = GhostHref
  /\ Len(L) > 2
  /\ Len(A) > Len(L)
  /\ Page = arg.page

(***************************************************************************)
(* Further properties of the props assembler (SpecProps).                  *)
(***************************************************************************)
\* the props the call returned
Props == ret.value[1]

\* the requested top-level section
Root == arg.slug[1]

\* the pages loaded for the menu: every page normalize loads is pushed to
\* the menu with its front matter as data
LoadedForMenu == Flatten(Props.menu)

\* the entries of the section in the menu of the props
SectionEntries == Props.menu[1].nested[1]

\* the mapping of the requested section in the sitemap
SectionMapping == Lookup(sitemap, Root)[1].nested.items

\* whether the requested section holds a key whose nested value is a mapping
HasNestedMapping == MappingPositions(SectionMapping) # { }

\* C16: the pages loaded for the menu by a getProps call are exactly the
\* file-backed nodes of the requested section, each once; no page of
\* another section is loaded; a key with an external href becomes a stub
\* (key and href, no data) and no file is loaded for it; so the call
\* succeeds whenever the target and the file-backed nodes of the section
\* have their files, whatever files the other section and the external
\* links lack.
C16_OnlyRequestedSectionLoaded ==
  /\ pc = "done"
       => /\ { LoadedForMenu[i].href : i \in 1..Len(LoadedForMenu) }
               = { PathOf(ks) : ks \in FileBackedNodes(Root) }
          /\ Len(LoadedForMenu) = Cardinality(FileBackedNodes(Root))
          /\ \A i \in 1..Len(SectionMapping) :
               Truthy(SectionMapping[i].v.href)
                 => /\ ~IsDefined(SectionEntries[i].page[1].data)
                    /\ SectionEntries[i].page[1].key = SectionMapping[i].k
                    /\ SectionEntries[i].page[1].href = SectionMapping[i].v.href[1]
  /\ (pc \in { "failed", "done" } /\ ~SomeFileMissing /\ ~HasNestedMapping /\ Globbed # << >>)
       => ~ret.threw

C16_Witness ==
  /\ pc = "done"
  /\ Truthy(SectionMapping[1].v.href)
  /\ Unbacked(<< Section, SectionMapping[1].k >>)
  /\ Unbacked(<< OtherSection >>)
  /\ Unbacked(<< OtherSection, ChildChain[1] >>)
  /\ ~Truthy(Lookup(sitemap, OtherSection)[1].href)
  /\ Len(LoadedForMenu) = 2

(***************************************************************************)
(* Properties of the app-wide data (SpecDates, SpecProps).                 *)
(***************************************************************************)
\* the segments of the post with the given full path
SegsOfPost(p) == CHOOSE g \in PostFiles(Len(PostChain)) : FullPathOf(platform, g) = p

\* the page is a page of the blog collection of the latest date, without its body
IsLastBlog(blog) ==
  /\ \E i \in 1..Len(Globbed) :
       /\ blog.mdPath = JoinWith(SegsOfPost(Globbed[i]), "/")
       /\ blog.data = files[Globbed[i]].data
  /\ \A i \in 1..Len(Globbed) : NotBefore(DateOf(blog), files[Globbed[i]].data.date[1])
  /\ blog.body = Undefined

\* C17: every props object withAppProps returns, and so every props object
\* getProps returns, carries app.blog = the most recently dated page of the
\* blog collection with its body removed, and the page and the menu of the
\* props are what they were before the app data was added.
C17_AppBlogIsLastPost ==
  /\ (pc = "app" /\ ~ret.threw)
       => /\ IsLastBlog(ret.value[1].app.blog)
          /\ ret.value[1].page = arg.props.page
          /\ ret.value[1].menu = arg.props.menu
  /\ pc = "done" => IsLastBlog(ret.value[1].app.blog)

C17_Witness ==
  /\ pc = "app"
  /\ ~ret.threw
  /\ Len(Globbed) = 3
  /\ DateOf(ret.value[1].app.blog) = << 2024, 6, 15 >>
  /\ files[Globbed[1]].data.date[1] = << 2022, 12, 31 >>
  /\ files[Globbed[2]].data.date[1] = << 2024, 6, 15 >>
  /\ ret.value[1].page = arg.props.page

(***************************************************************************)
(* Further properties of the page loader (SpecLoad).                       *)
(***************************************************************************)
\* what gray-matter read for the slug of the input: <s>.md when it exists,
\* else <s>/index.md
FileRead ==
  IF HasFile(MdFile(arg.segs)) THEN files[FullPathOf(platform, MdFile(arg.segs))]
  ELSE files[FullPathOf(platform, IndexFile(arg.segs))]

\* C18: a page that loads has key = the last segment of its relative path,
\* title = the title of the front matter, menuTitle = the menu field of the
\* front matter when present and else the title, description = the
\* description of the front matter when present and else null.
C18_RecordFields ==
  (pc = "loaded" /\ ~ret.threw)
    => /\ Page.key = Last(arg.segs)
       /\ Page.title = FileRead.data.title
       /\ Page.menuTitle = IF IsDefined(FileRead.data.menu) THEN FileRead.data.menu
                           ELSE FileRead.data.title
       /\ Page.description = IF IsDefined(FileRead.data.description)
                               THEN FileRead.data.description ELSE Null

(***************************************************************************)
(* SpecRoots: the page loader on inputs of every kind when the content     *)
(* directory also holds a file at the place an absolute path from          *)
(* elsewhere names below it (content/x/a.md for /x/a).                     *)
(***************************************************************************)
FileStyles == { { MdFile(g) : g \in Slugs }, { IndexFile(g) : g \in Slugs } }

InitRoots ==
  /\ platform \in Platforms
  /\ \E F \in FileStyles :
       files = FileSystem(platform, F \cup { MdFile(OutsideSlug) }, FullProfile, NoDate)
  /\ globOrder = << >>
  /\ sitemap = << >>
  /\ arg \in LoadInputs(platform)
  /\ pc = "start"
  /\ ret = NoRet
  /\ ret0 = NoRet
  /\ calls = NoCalls

NextRoots == LoadPage \/ LoadPageAgain

SpecRoots == InitRoots /\ [][NextRoots]_vars

(***************************************************************************)
(* Properties of the page loader on inputs of every kind (SpecRoots).      *)
(***************************************************************************)
\* the path begins with a separator or with the content directory
Unrooted(p) ==
  \/ StartsWith(p, << "/" >>)
  \/ StartsWith(p, << "\\" >>)
  \/ StartsWith(p, contentDir(platform))
  \/ StartsWith(p, Normalize(platform, contentDir(platform)))

\* C19: for every input (relative, "./"-prefixed, absolute inside the
\* content root, absolute elsewhere) the path loadPage uses for href and
\* mdPath is relative to the content root: it begins neither with a
\* separator nor with the content-root prefix nor with "./".
C19_AlwaysRootRelative ==
  (pc = "loaded" /\ ~ret.threw)
    => /\ Page.href[1] = "/"
       /\ ~Unrooted(Substring(Page.href, 1))
       /\ ~Unrooted(Page.mdPath)
       /\ ~StartsWith(Page.mdPath, << ".", "/" >>)


(***************************************************************************)
(* The order of the traversal (SpecLink).                                  *)
(***************************************************************************)
RECURSIVE PositionsOf(_, _)
\* the positions of the entries of a menu: an entry is named by the indexes
\* that lead to it, one per level
PositionsOf(menu, prefix) ==
  UNION { { prefix \o << i >> }
            \cup (IF IsDefined(menu[i].nested)
                    THEN PositionsOf(menu[i].nested[1], prefix \o << i >>)
                  ELSE {})
          : i \in 1..Len(menu) }

RECURSIVE EntryAt(_, _)
\* the entry of a menu at a position
EntryAt(menu, pos) ==
  IF Len(pos) = 1 THEN menu[pos[1]]
  ELSE EntryAt(menu[pos[1]].nested[1], Tail(pos))

\* the positions of the entries that carry page data
DataPositions(menu) ==
  { pos \in PositionsOf(menu, << >>) : HasPageData(EntryAt(menu, pos)) }

\* declaration order, depth first: a is an ancestor of b, or they part at a
\* level where a comes first
Before(a, b) ==
  \E k \in 1..Len(b) :
    /\ \A n \in 1..(k - 1) : n <= Len(a) /\ a[n] = b[n]
    /\ \/ k = Len(a) + 1
       \/ k <= Len(a) /\ a[k] < b[k]

\* the positions of the visited pages, in the order of the visits (the
\* pages of a menu differ in their hrefs)
VisitedPositions(visits, menu, positions) ==
  [i \in 1..Len(visits) |->
     CHOOSE pos \in positions \cup { << >> } :
       \/ pos # << >> /\ EntryAt(menu, pos).page[1] = visits[i].p
       \/ pos = << >> /\ \A q \in positions : EntryAt(menu, q).page[1] # visits[i].p]

\* each position is visited, none twice, and each visit is of a position
\* later in declaration order than the visit before it (Before is a total
\* order of the positions)
InOrder(visited, positions) ==
  /\ Len(visited) = Cardinality(positions)
  /\ { visited[i] : i \in 1..Len(visited) } = positions
  /\ \A i \in 1..(Len(visited) - 1) : Before(visited[i], visited[i + 1])

\* every entry with page data is visited exactly once, no other visit is
\* made, and the visits follow the declaration order depth first
DepthFirstOnce(visits, menu, positions) ==
  InOrder(VisitedPositions(visits, menu, positions), positions)

\* C20: the traversal visits every menu entry that carries page data exactly
\* once, depth first in declaration order: a parent page before its nested
\* children, and all children of a section before the section's next
\* sibling; on every finite menu the traversal comes to an end with its
\* sequence of visits.
C20_DepthFirstExactlyOnce ==
  /\ pc = "start" => ENABLED EachPage
  /\ pc = "visited" =>
       /\ ~ret.threw
       /\ DepthFirstOnce(ret.value[1], arg.menu, DataPositions(arg.menu))

\* a traversal of a menu with a section that has two children, an external
\* link and a page after the section
C20_Witness ==
  /\ pc = "visited"
  /\ Len(ret.value[1]) >= 4
  /\ Len(FlattenAll(arg.menu)) > Len(ret.value[1])
  /\ \E a \in DataPositions(arg.menu) : \E b \in DataPositions(arg.menu) :
       \E c \in DataPositions(arg.menu) :
         /\ Len(a) = 2 /\ Len(b) = 3 /\ Len(c) = 2
         /\ Before(a, b) /\ Before(b, c)

(***************************************************************************)
(* The prev link and the previous page's title (SpecLink).                 *)
(***************************************************************************)
\* the visits the traversal makes on the menu the linker was given
Visits == eachPage(arg.menu, Undefined, Undefined)

\* the previous page handed to the callback when the target is visited
Cursor == Visits[TargetIndex].prev

\* the target has the link to the previous page as its prev
LinksBackTo(cursor) ==
  /\ IsDefined(cursor)
  /\ Page.prev = Some(LinkTo(cursor[1]))

PrevByTitle(i, cursor) ==
  /\ i > 1 => IsDefined(cursor)
  /\ (IsDefined(cursor) /\ Truthy(cursor[1].title))
       => Page.prev = Some([title |-> cursor[1].title, href |-> cursor[1].href])
  /\ ~(IsDefined(cursor) /\ Truthy(cursor[1].title))
       => Page.prev = arg.page.prev

UntitledBefore(cursor) == IsDefined(cursor) /\ ~Truthy(cursor[1].title)

StateBefore(visits, k) ==
  linkFrom([didMatch |-> FALSE, prev |-> arg.page.prev, next |-> arg.page.next],
           arg.page.href, SubSeq(visits, 1, k - 1))

\* the visits at which the callback assigns target.next
NextAssignments(visits) ==
  { k \in 1..Len(visits) :
      visits[k].p.href # arg.page.href /\ StateBefore(visits, k).didMatch }

\* the position in the menu of the k-th page of the flattened list
PositionOf(k) ==
  CHOOSE pos \in DataPositions(arg.menu) : EntryAt(arg.menu, pos).page[1] = L[k]

\* next of the target at index i of the list: assigned once, at the visit
\* after the target's
NextIsAfter(i, list) ==
  /\ NextAssignments(Visits) = { i + 1 } \cap 1..Len(list)
  /\ i < Len(list) => Page.next = Some(LinkTo(list[i + 1]))
  /\ i = Len(list) => Page.next = arg.page.next

\* C22: on every menu with pairwise distinct hrefs, target.next is assigned
\* exactly once, at the first page visited after the target and at no later
\* page, also across section boundaries (the next of a section's index page
\* is its first nested child, the next of the last nested child is the page
\* of the following sibling entry); the last page of the menu gets no next.
C22_NextIsFirstAfterTarget ==
  (pc = "linked" /\ TargetIndex > 0) => NextIsAfter(TargetIndex, L)

\* the target is the last nested child of a section, and its next is the
\* page of the entry that follows the section
C22_Witness ==
  /\ pc = "linked"
  /\ TargetIndex > 2
  /\ TargetIndex < Len(L)
  /\ Len(PositionOf(TargetIndex)) = 3
  /\ Len(PositionOf(TargetIndex - 1)) = 3
  /\ Len(PositionOf(TargetIndex + 1)) = 2
  /\ HrefOf(Page.next) = Some(L[TargetIndex + 1].href)
  /\ NextAssignments(Visits) = { TargetIndex + 1 }

(***************************************************************************)
(* The entries the normalizer builds (SpecNorm).                           *)
(***************************************************************************)
\* what gray-matter reads from the file of the page with these segments
BackingFile(segs) ==
  IF HasFile(MdFile(segs)) THEN files[FullPathOf(platform, MdFile(segs))]
  ELSE files[FullPathOf(platform, IndexFile(segs))]

\* the page is the summary of the page with these segments: its href, the
\* menu label as title, the front matter as data, a key, and nothing else
\* (what the key is, is the subject of C3)
IsSummaryOf(page, segs, file) ==
  /\ IsDefined(page)
  /\ DOMAIN page[1] = { "key", "href", "title", "data" }
  /\ page[1].href = PathOf(segs)
  /\ page[1].title = OrElse(file.data.menu, file.data.title)
  /\ page[1].data = Some(file.data)

\* the entry built for a key without href and without nested value
IsSinglePage(entry, segs) ==
  /\ IsSummaryOf(entry.page, segs, BackingFile(segs))
  /\ ~IsDefined(entry.nested)

\* the entry built for a key whose nested value is a list of child keys
IsSectionOf(entry, segs, children) ==
  /\ IsSummaryOf(entry.page, segs, BackingFile(segs))
  /\ IsDefined(entry.nested)
  /\ Len(entry.nested[1]) = Len(children)
  /\ \A j \in 1..Len(children) :
       IsSinglePage(entry.nested[1][j], Append(segs, children[j]))

\* the positions of the keys of a mapping that declare a list of child keys
ListPositions(level) ==
  { i \in 1..Len(level) : ~Truthy(level[i].v.href) /\ level[i].v.nested.kind = "list" }

\* the positions of the keys of a mapping with neither href nor nested value
SinglePositions(level) ==
  { i \in 1..Len(level) : ~Truthy(level[i].v.href) /\ level[i].v.nested.kind = "none" }

\* C23: for a key whose nested value is a list of child keys normalize
\* produces one entry whose page is loaded from <root>/<key> and whose
\* nested sequence holds one entry per element of the list, loaded from
\* <root>/<key>/<child>; for a key with neither href nor nested value it
\* produces one entry loaded from <root>/<key> without nested field; every
\* loaded menu page keeps only key, href, title (the menu label) and data,
\* never the body.
C23_SectionAndSinglePageEntries ==
  (pc = "normalized" /\ ~ret.threw)
    => /\ Len(ret.value[1]) = Len(arg.menu.items)
       /\ \A i \in ListPositions(arg.menu.items) :
            IsSectionOf(ret.value[1][i], << arg.root, arg.menu.items[i].k >>,
                        arg.menu.items[i].v.nested.items)
       /\ \A i \in SinglePositions(arg.menu.items) :
            IsSinglePage(ret.value[1][i], << arg.root, arg.menu.items[i].k >>)

\* a normalized section with a single page and a key with two children
C23_Witness ==
  /\ pc = "normalized"
  /\ ~ret.threw
  /\ SinglePositions(arg.menu.items) # { }
  /\ \E i \in ListPositions(arg.menu.items) :
       /\ Len(arg.menu.items[i].v.nested.items) >= 2
       /\ Len(ret.value[1][i].nested[1]) >= 2

(***************************************************************************)
(* Prev and next of different targets (SpecLink).                          *)
(***************************************************************************)
\* the page of the menu with this href, linked as a target of its own
LinkedAs(p) == setPrevNext(TargetPage(p.href), arg.menu)

\* C24: prev and next are mutually consistent: on a menu with distinct
\* hrefs and non-empty titles, for all pages X and Y of the menu, linking
\* the target X gives next.href = Y.href if and only if linking the target
\* Y gives prev.href = X.href.
C24_PrevNextConsistent ==
  (pc = "linked" /\ AllTitled /\ TargetIndex > 0)
    => \A k \in 1..Len(L) :
         (HrefOf(Page.next) = Some(L[k].href))
           <=> (HrefOf(LinkedAs(L[k]).prev) = Some(arg.page.href))

(***************************************************************************)
(* SpecRoute: the paths getMenuPaths emits for a sitemap, each handed to   *)
(* getProps with the same sitemap, as the static path generation does;     *)
(* the blog holds two posts.                                               *)
(***************************************************************************)
\* the files of section u, stored like those of section t
OtherFiles(variant) ==
  { IF variant.style = "md" THEN MdFile(g) ELSE IndexFile(g)
    : g \in { << OtherSection >>, << OtherSection, ChildChain[1] >> } }

\* all files as <path>.md, all as <path>/index.md, or one page missing
RouteVariants ==
  { FileVariant("md", << >>), FileVariant("index", << >>),
    FileVariant("md", << Section, KeyChain[1], ChildChain[1] >>) }

InitRoute ==
  /\ platform \in Platforms
  /\ \E variant \in RouteVariants :
       files = FileSystem(platform,
                          ContentFiles(variant) \cup OtherFiles(variant) \cup PostFiles(2),
                          FullProfile, BlogDate)
  /\ globOrder = Enumeration(platform, << 1, 2 >>)
  /\ \E plan \in PropsPlans, second \in SecondShapes : sitemap = SitemapOf(plan, second)
  /\ arg = << >>
  /\ pc = "start"
  /\ ret = NoRet
  /\ ret0 = NoRet
  /\ calls = NoCalls

\* getProps(menu, slug) up to the await on the renderer
BeginWith(slug, r) ==
  /\ arg' = [slug |-> slug]
  /\ ret' = r
  /\ ret0' = ret
  /\ pc' = IF r.threw THEN "failed" ELSE "awaiting"
  /\ UNCHANGED << world, calls >>

\* getProps is called with one of the slug arrays getMenuPaths returned
GetPropsOfPath ==
  /\ pc = "paths"
  /\ \E i \in 1..Len(ret.value[1].paths) :
       BeginWith(ret.value[1].paths[i].params.slug,
                 getPropsBegin(platform, files, ret.value[1].paths[i].params.slug))

NextRoute == GetMenuPaths \/ GetPropsOfPath \/ GetPropsFinish

SpecRoute == InitRoute /\ [][NextRoute]_vars

(***************************************************************************)
(* Properties of the emitted paths as inputs of getProps (SpecRoute).      *)
(***************************************************************************)
\* every node of the sitemap without an explicit href has its file
RoutableBacked == \A ks \in Routable : ~Unbacked(ks)

\* the top-level keys of the sitemap
TopLevelKeys == { sitemap[i].k : i \in 1..Len(sitemap) }

\* C25: on a sitemap whose file-backed nodes all have their files, every
\* slug array getMenuPaths emits, passed to getProps with the same sitemap,
\* has a top-level key of the sitemap as its first element, so that the
\* section lookup succeeds, and loads a page whose href is "/" followed by
\* the segments of the slug joined with "/".
C25_EmittedSlugLoads ==
  (pc \in { "awaiting", "failed", "done" } /\ RoutableBacked)
    => /\ arg.slug[1] \in TopLevelKeys
       /\ IsDefined(Lookup(sitemap, arg.slug[1]))
       /\ pc = "awaiting"
            => /\ ret.value[1].root = arg.slug[1]
               /\ ret.value[1].page.href = PathOf(arg.slug)
       /\ pc = "done" => Props.page.href = PathOf(arg.slug)
       /\ pc = "failed"
            => /\ "page" \in DOMAIN ret0.value[1]
               /\ ret0.value[1].page.href = PathOf(arg.slug)

\* the page of a slug of three segments was loaded on win32, and the call
\* returned its props
C25_Witness ==
  /\ pc = "done"
  /\ RoutableBacked
  /\ platform = "win32"
  /\ Len(arg.slug) = 3
  /\ Props.page.href = PathOf(arg.slug)

\* the top-level keys without an explicit href
RoutableSections == { k \in TopLevelKeys : ~Truthy(Lookup(sitemap, k)[1].href) }

\* the path of the section the call was made for
RootPath == PathOf(<< arg.slug[1] >>)

\* C26: the top-level section itself is emitted by getMenuPaths as the slug
\* [root], but the menu getProps builds wraps the section in an entry
\* without a page, so the traversal never visits the page of the section:
\* getProps for the slug [root] returns a page with neither prev nor next,
\* and no page ever gets the section root as its prev.
C26_SectionRootNotLinked ==
  /\ pc = "paths" => \A k \in RoutableSections : << k >> \in EmittedSlugs
  /\ pc = "done"
       => /\ ~IsDefined(Props.menu[1].page)
          /\ \A i \in 1..Len(LoadedForMenu) : LoadedForMenu[i].href # RootPath
          /\ arg.slug = << arg.slug[1] >>
               => ~IsDefined(Props.page.prev) /\ ~IsDefined(Props.page.next)
          /\ HrefOf(Props.page.prev) # Some(RootPath)
          /\ HrefOf(Props.page.next) # Some(RootPath)

\* getProps returned for the slug of the section itself, with a menu of
\* several pages
C26_Witness ==
  /\ pc = "done"
  /\ arg.slug = << Section >>
  /\ Props.page.href = PathOf(<< Section >>)
  /\ Len(LoadedForMenu) >= 3
  /\ ~IsDefined(Props.page.next)

(***************************************************************************)
(* The props assembler and an empty blog (SpecProps).                      *)
(***************************************************************************)
\* the target page and every page of the menu of its section load
TargetAndMenuLoad ==
  /\ ~loadPage(platform, files, JoinWith(arg.slug, Sep(platform))).threw
  /\ IsDefined(Lookup(sitemap, Root))
  /\ ~normalize(platform, files, Lookup(sitemap, Root)[1].nested, Root).threw

\* C27: when the blog collection is empty, getLastBlog returns no page and
\* withAppProps fails while stripping the body, so getProps fails for every
\* slug, also when the target page and the whole menu loaded; getProps
\* succeeds only if the blog collection holds at least one page.
C27_EmptyBlogFailsEveryCall ==
  /\ Globbed = << >> => getLastBlog(platform, files, globOrder) = Return(Undefined)
  /\ (pc \in { "failed", "done" } /\ Globbed = << >>)
       => /\ ret.threw
          /\ ret.value = << >>
          /\ TargetAndMenuLoad => ret.error = Some(TypeError) /\ ~ret0.threw
  /\ pc = "done" => Globbed # << >> /\ TargetAndMenuLoad

\* the blog is empty, the target page and the menu loaded, and the call
\* failed after the await
C27_Witness ==
  /\ pc = "failed"
  /\ Globbed = << >>
  /\ TargetAndMenuLoad
  /\ ret.error = Some(TypeError)
  /\ ret0.value[1].page.href = PathOf(arg.slug)

(***************************************************************************)
(* The collector and the normalizer on the same section (SpecNorm).        *)
(***************************************************************************)
\* the positions of the keys of a mapping with an explicit href and a list
\* of children
LinkedListPositions(level) ==
  { i \in 1..Len(level) :
      /\ Truthy(level[i].v.href)
      /\ level[i].v.nested.kind = "list"
      /\ level[i].v.nested.items # << >> }

\* the hrefs of the pages of a normalized menu that carry data
FileBackedHrefs(menu) == { Flatten(menu)[i].href : i \in 1..Len(Flatten(menu)) }

\* how often a path is emitted
Emissions(paths, p) == Cardinality({ n \in 1..Len(paths) : paths[n] = p })

\* C28: for a node with both an explicit href and nested children the
\* collector emits no path for the node itself and one path for each nested
\* child, and the normalizer turns the node into a stub entry without
\* nested entries; so the paths emitted below a section are the hrefs of
\* the file-backed pages of its normalized menu only on sitemaps in which
\* no node with an href has nested children.
C28_LinkedNodeChildren ==
  pc = "compared"
    => /\ \A i \in LinkedListPositions(arg.menu.items) :
            /\ Emissions(ret.value[1], PathOf(<< arg.root, arg.menu.items[i].k >>)) = 0
            /\ \A j \in 1..Len(arg.menu.items[i].v.nested.items) :
                 Emissions(ret.value[1],
                           PathOf(<< arg.root, arg.menu.items[i].k,
                                     arg.menu.items[i].v.nested.items[j] >>)) = 1
       /\ ~ret0.threw
            => /\ \A i \in LinkedListPositions(arg.menu.items) :
                    /\ ~IsDefined(ret0.value[1][i].nested)
                    /\ ~IsDefined(ret0.value[1][i].page[1].data)
                    /\ ret0.value[1][i].page[1].href = arg.menu.items[i].v.href[1]
               /\ Elements(ret.value[1]) = FileBackedHrefs(ret0.value[1])
                    => LinkedListPositions(arg.menu.items) = { }

\* a section with a page and an external link that has a child: the path
\* of the child is emitted, the menu has a stub for the link
C28_Witness ==
  /\ pc = "compared"
  /\ ~ret0.threw
  /\ LinkedListPositions(arg.menu.items) # { }
  /\ SinglePositions(arg.menu.items) # { }
  /\ Elements(ret.value[1]) # FileBackedHrefs(ret0.value[1])
  /\ Cardinality(Elements(ret.value[1])) = Cardinality(FileBackedHrefs(ret0.value[1])) + 1

(***************************************************************************)
(* SpecSteps: one getProps call, statement by statement.  The call holds   *)
(* its root, its page and its menu, and the steps it has completed.        *)
(***************************************************************************)
\* api.ts 59-64: the slug is joined, the root is its first piece, the page
\* is loaded
targetLoaded(root, r) ==
  IF r.threw THEN r
  ELSE Return([root |-> root, page |-> r.value[1], menu |-> << >>, completed |-> << "load" >>])

loadTarget(pf, fs, joined) ==
  targetLoaded(Split(joined, { Sep(pf) })[1], loadPage(pf, fs, joined))

\* api.ts 65: page.body = await toHTML(page.body)
bodyRendered(held) ==
  Return([held EXCEPT !.page.body = toHTML(@), !.completed = Append(@, "render")])

\* mutant: a menu that failed to load counts as an empty one
menuLoaded_IgnoresFailure(held, root, title, nested) ==
  Return([held EXCEPT !.menu = << [key |-> root, title |-> title, page |-> Undefined,
                                   nested |-> IF nested.threw THEN Some(<< >>)
                                              ELSE nested.value] >>,
                      !.completed = Append(@, "menu")])

\* api.ts 67-73: the menu of the section, wrapped in the entry of the section
menuLoaded(held, root, title, nested) ==
  IF nested.threw THEN nested
  ELSE Return([held EXCEPT !.menu = << [key |-> root, title |-> title, page |-> Undefined,
                                        nested |-> nested.value] >>,
                           !.completed = Append(@, "menu")])

loadMenu(pf, fs, held, section) ==
  IF ~IsDefined(section) THEN Throw(TypeError)
  ELSE menuLoaded(held, held.root, section[1].title,
                  normalize(pf, fs, section[1].nested, held.root))

\* api.ts 75: setPrevNext(page, normalized)
pageLinked(held) ==
  Return([held EXCEPT !.page = setPrevNext(@, held.menu), !.completed = Append(@, "link")])

\* api.ts 77-82: return withAppProps({props: {page, menu}})
propsReturned(pf, fs, order, held) ==
  withAppProps(pf, fs, order, [page |-> held.page, menu |-> held.menu])

\* the pages asked for: one of the section, a child, and an unknown one
StepSlugs == { << Section, KeyChain[1] >>, << Section, KeyChain[1], ChildChain[1] >>, UnknownSlug }

InitSteps ==
  /\ platform \in Platforms
  /\ \E variant \in RouteVariants, n \in BlogSizes :
       /\ files = FileSystem(platform, ContentFiles(variant) \cup PostFiles(n), FullProfile, BlogDate)
       /\ globOrder = Enumeration(platform, [i \in 1..n |-> i])
  /\ \E plan \in PropsPlans : sitemap = SitemapOf(plan, Shape("list", << ChildChain[1] >>))
  /\ \E slug \in StepSlugs : arg = [slug |-> slug]
  /\ pc = "start"
  /\ ret = NoRet
  /\ ret0 = NoRet
  /\ calls = NoCalls

LoadTarget ==
  /\ pc = "start"
  /\ Reached(loadTarget(platform, files, JoinWith(arg.slug, Sep(platform))), "loaded")

RenderBody ==
  /\ pc = "loaded"
  /\ Reached(bodyRendered(ret.value[1]), "rendered")

LoadMenu ==
  /\ pc = "rendered"
  /\ Reached(loadMenu(platform, files, ret.value[1], Lookup(sitemap, ret.value[1].root)),
             "normalized")

LinkPage ==
  /\ pc = "normalized"
  /\ Reached(pageLinked(ret.value[1]), "linked")

ReturnProps ==
  /\ pc = "linked"
  /\ Reached(propsReturned(platform, files, globOrder, ret.value[1]), "done")

NextSteps == LoadTarget \/ RenderBody \/ LoadMenu \/ LinkPage \/ ReturnProps

SpecSteps == InitSteps /\ [][NextSteps]_vars

(***************************************************************************)
(* Properties of the order of the steps (SpecSteps).                       *)
(***************************************************************************)
StepOrder == << "load", "render", "menu", "link" >>

\* the steps the call has completed
Completed ==
  IF pc = "start" THEN << >>
  ELSE IF pc = "failed" THEN (IF ret0 = NoRet THEN << >> ELSE ret0.value[1].completed)
  ELSE IF pc = "done" THEN StepOrder \o << "blog" >>
  ELSE ret.value[1].completed

\* whether the call has completed the step
Did(step) == \E i \in 1..Len(Completed) : Completed[i] = step

\* a file-backed node of the requested section has no file
MenuFileMissing == \E ks \in FileBackedNodes(arg.slug[1]) : Unbacked(ks)

\* C29: within one getProps call the steps happen in a fixed order: the
\* target page is loaded, then its body is rendered, then the menu pages
\* are loaded, then prev/next is linked, then the blog collection is read;
\* so when the file of the target is missing the renderer is never invoked
\* and neither the menu nor the blog is read, and when a file of the menu
\* is missing prev/next is never computed.
C29_FixedStepOrder ==
  /\ Completed = SubSeq(StepOrder \o << "blog" >>, 1, Len(Completed))
  /\ Unbacked(arg.slug) => Completed = << >> /\ pc \in { "start", "failed" }
  /\ (Unbacked(arg.slug) /\ pc = "failed") => ret.error[1].name = "ENOENT"
  /\ MenuFileMissing => ~Did("menu") /\ ~Did("link") /\ ~Did("blog")
  /\ (MenuFileMissing /\ ~Unbacked(arg.slug) /\ pc = "failed")
       => Completed = << "load", "render" >>
  /\ pc = "loaded" => ~StartsWith(ret.value[1].page.body, toHTML(<< >>))
  /\ pc \in { "rendered", "normalized", "linked" }
       => StartsWith(ret.value[1].page.body, toHTML(<< >>))
  /\ pc = "done" => StartsWith(Props.page.body, toHTML(<< >>))

\* the target loaded and was rendered, a page of the menu has no file, and
\* the call failed before linking
C29_Witness ==
  /\ pc = "failed"
  /\ ~Unbacked(arg.slug)
  /\ MenuFileMissing
  /\ Completed = << "load", "render" >>
  /\ ret.error[1].name = "ENOENT"

(***************************************************************************)
(* What the linker leaves alone (SpecLink).                                *)
(***************************************************************************)
\* the fields of a page record other than the two links
OtherFields(page) == DOMAIN page \ { "prev", "next" }

====
